---- MODULE Spec2Model ----
(***************************************************************************)
(* Verification model of the jotex bank-transaction pipeline:              *)
(*   - utils/update_customer_name.py : similarity scoring, the dual        *)
(*     registry reconciliation loop and the two-stage AI fallback;         *)
(*   - core/MY_mbb_create_pymt.py    : the payment-creation run.           *)
(* Text values are sequences of one-character strings so that the string   *)
(* functions of the source (lower, strip, SequenceMatcher.ratio) are       *)
(* computed, not assumed.                                                  *)
(***************************************************************************)
EXTENDS Integers, Sequences, FiniteSets, TLC

(***************************************************************************)
(* Text helpers                                                            *)
(***************************************************************************)

\* str.lower() on one character (the alphabet of the model's names)
LowerChar(c) ==
  CASE c = "A" -> "a"
    [] c = "B" -> "b"
    [] c = "C" -> "c"
    [] c = "E" -> "e"
    [] c = "M" -> "m"
    [] c = "X" -> "x"
    [] c = "Y" -> "y"
    [] OTHER -> c

\* str.lower()
Lower(s) == [k \in 1..Len(s) |-> LowerChar(s[k])]

\* str.split() followed by ' '.join(): drops leading/trailing blanks and
\* collapses every run of blanks to one blank
RECURSIVE CollapseSpaces(_, _)
CollapseSpaces(s, started) ==
  IF s = <<>> THEN <<>>
  ELSE IF Head(s) = " "
       THEN IF \A k \in 1..Len(s) : s[k] = " "
            THEN <<>>
            ELSE IF started /\ Tail(s) # <<>> /\ Head(Tail(s)) # " "
                 THEN <<" ">> \o CollapseSpaces(Tail(s), started)
                 ELSE CollapseSpaces(Tail(s), started)
       ELSE <<Head(s)>> \o CollapseSpaces(Tail(s), TRUE)

\* str.replace(pat, rep), leftmost non-overlapping occurrences
RECURSIVE ReplaceAll(_, _, _)
ReplaceAll(s, pat, rep) ==
  LET Occurs(k) == SubSeq(s, k, k + Len(pat) - 1) = pat
      Starts == { k \in 1..(Len(s) - Len(pat) + 1) : Occurs(k) }
      first == CHOOSE k \in Starts : \A j \in Starts : k <= j
  IN IF Starts = {} THEN s
     ELSE SubSeq(s, 1, first - 1) \o rep
            \o ReplaceAll(SubSeq(s, first + Len(pat), Len(s)), pat, rep)

\* A missing cell (pandas NaN, what read_csv yields for an empty cell): a
\* value that is no text, since every character of a text is one character
NaN == <<"NaN">>

\* str.strip()
RECURSIVE Strip(_)
Strip(s) ==
  IF s = <<>> THEN s
  ELSE IF Head(s) = " " THEN Strip(Tail(s))
  ELSE IF s[Len(s)] = " " THEN Strip(SubSeq(s, 1, Len(s) - 1))
  ELSE s

\* normalize_customer_name
normalize_customer_name(name) ==
  IF name = NaN THEN <<>>
  ELSE CollapseSpaces(
         ReplaceAll(ReplaceAll(Strip(name), <<"%", "2", "6">>, <<"&">>),
                    <<"%", "2", "0">>, <<" ">>),
         FALSE)

(***************************************************************************)
(* difflib.SequenceMatcher(None, a, b).ratio()                             *)
(***************************************************************************)

\* length of the common run of a and b starting at a[i], b[j] inside the
\* windows [i, ahi) and [j, bhi)
RECURSIVE CommonRun(_, _, _, _, _, _)
CommonRun(a, b, i, j, ahi, bhi) ==
  IF i < ahi /\ j < bhi /\ a[i] = b[j]
  THEN 1 + CommonRun(a, b, i + 1, j + 1, ahi, bhi)
  ELSE 0

\* find_longest_match: the longest block, earliest in a, then earliest in b
FindLongestMatch(a, b, alo, ahi, blo, bhi) ==
  LET pairs == (alo..(ahi - 1)) \X (blo..(bhi - 1))
      size(p) == CommonRun(a, b, p[1], p[2], ahi, bhi)
      best == IF pairs = {} THEN 0
              ELSE CHOOSE k \in {size(p) : p \in pairs} :
                     \A q \in pairs : size(q) <= k
      winners == {p \in pairs : size(p) = best}
      first == CHOOSE p \in winners :
                 \A q \in winners :
                   p[1] < q[1] \/ (p[1] = q[1] /\ p[2] <= q[2])
  IN IF best = 0 THEN <<alo, blo, 0>> ELSE <<first[1], first[2], best>>

\* get_matching_blocks: total size of the blocks found by recursing to the
\* left and to the right of the longest match
RECURSIVE MatchingChars(_, _, _, _, _, _)
MatchingChars(a, b, alo, ahi, blo, bhi) ==
  LET m == FindLongestMatch(a, b, alo, ahi, blo, bhi)
  IN IF m[3] = 0 THEN 0
     ELSE m[3]
          + MatchingChars(a, b, alo, m[1], blo, m[2])
          + MatchingChars(a, b, m[1] + m[3], ahi, m[2] + m[3], bhi)

\* similarity(a, b): the ratio 2*M/T as the exact fraction num/den
\* (ratio() returns 1.0 when both strings are empty)
similarity(a, b) ==
  LET la == Lower(a)
      lb == Lower(b)
      T == Len(la) + Len(lb)
  IN IF T = 0 THEN [num |-> 1, den |-> 1]
     ELSE [num |-> 2 * MatchingChars(la, lb, 1, Len(la) + 1, 1, Len(lb) + 1),
           den |-> T]

\* comparisons of ratios, and of a ratio with a threshold given in percent
RatioGT(x, y) == x.num * y.den > y.num * x.den
\* the threshold test accepting what does not exceed the threshold
RatioGEPct_Below(x, pct) == 100 * x.num <= pct * x.den
RatioGEPct(x, pct) == 100 * x.num >= pct * x.den
RatioGTPct(x, pct) == 100 * x.num > pct * x.den
ZeroRatio == [num |-> 0, den |-> 1]

(***************************************************************************)
(* Registry search.  A table is a sequence of rows; a row is a function    *)
(* from column names to cells.  A row index of 0 stands for None.          *)
(***************************************************************************)

\* the loop keeping the last accepted entry instead of the best one
RECURSIVE BestMatchFrom_LastAccepted(_, _, _, _, _, _, _)
BestMatchFrom_LastAccepted(input_name, df, name_columns, threshold_pct, r, c, best) ==
  IF r > Len(df) THEN best
  ELSE IF c > Len(name_columns)
       THEN BestMatchFrom_LastAccepted(input_name, df, name_columns,
                                       threshold_pct, r + 1, 1, best)
  ELSE
    LET col_name == name_columns[c]
        candidate_name == IF col_name \in DOMAIN df[r]
                          THEN normalize_customer_name(df[r][col_name])
                          ELSE <<>>
        sim_ratio == similarity(input_name, candidate_name)
        better == /\ col_name \in DOMAIN df[r]
                  /\ candidate_name # <<>>
                  /\ RatioGEPct(sim_ratio, threshold_pct)
    IN BestMatchFrom_LastAccepted(input_name, df, name_columns,
                                  threshold_pct, r, c + 1,
                                  IF better
                                  THEN [best_match |-> r,
                                        best_similarity |-> sim_ratio,
                                        best_match_type |-> col_name]
                                  ELSE best)

\* the loop replacing the best entry by a later one that is as similar
RECURSIVE BestMatchFrom_LastOfTies(_, _, _, _, _, _, _)
BestMatchFrom_LastOfTies(input_name, df, name_columns, threshold_pct, r, c, best) ==
  IF r > Len(df) THEN best
  ELSE IF c > Len(name_columns)
       THEN BestMatchFrom_LastOfTies(input_name, df, name_columns,
                                     threshold_pct, r + 1, 1, best)
  ELSE
    LET col_name == name_columns[c]
        candidate_name == IF col_name \in DOMAIN df[r]
                          THEN normalize_customer_name(df[r][col_name])
                          ELSE <<>>
        sim_ratio == similarity(input_name, candidate_name)
        better == /\ col_name \in DOMAIN df[r]
                  /\ candidate_name # <<>>
                  /\ ~RatioGT(best.best_similarity, sim_ratio)
                  /\ RatioGEPct(sim_ratio, threshold_pct)
    IN BestMatchFrom_LastOfTies(input_name, df, name_columns,
                                threshold_pct, r, c + 1,
                                IF better
                                THEN [best_match |-> r,
                                      best_similarity |-> sim_ratio,
                                      best_match_type |-> col_name]
                                ELSE best)

\* the loop of find_best_match_in_dataframe over rows, then columns,
\* from row r and column c on, with the best entry found so far
RECURSIVE BestMatchFrom(_, _, _, _, _, _, _)
BestMatchFrom(input_name, df, name_columns, threshold_pct, r, c, best) ==
  IF r > Len(df) THEN best
  ELSE IF c > Len(name_columns)
       THEN BestMatchFrom(input_name, df, name_columns, threshold_pct,
                          r + 1, 1, best)
  ELSE
    LET col_name == name_columns[c]
        candidate_name == IF col_name \in DOMAIN df[r]
                          THEN normalize_customer_name(df[r][col_name])
                          ELSE <<>>
        sim_ratio == similarity(input_name, candidate_name)
        better == /\ col_name \in DOMAIN df[r]
                  /\ candidate_name # <<>>
                  /\ RatioGT(sim_ratio, best.best_similarity)
                  /\ RatioGEPct(sim_ratio, threshold_pct)
    IN BestMatchFrom(input_name, df, name_columns, threshold_pct, r, c + 1,
                     IF better
                     THEN [best_match |-> r, best_similarity |-> sim_ratio,
                           best_match_type |-> col_name]
                     ELSE best)

\* find_best_match_in_dataframe
find_best_match_in_dataframe(input_name, df, name_columns, threshold_pct) ==
  BestMatchFrom(input_name, df, name_columns, threshold_pct, 1, 1,
                [best_match |-> 0, best_similarity |-> ZeroRatio,
                 best_match_type |-> "None"])

\* the prefilter of get_top_matches_from_bc, in percent (sim_ratio > 0.4)
PrefilterPct == 40

\* top_n of get_top_matches_from_bc as ai_two_stage_matching calls it
TopN == 20

\* the records get_top_matches_from_bc collects for one possible name,
\* rows then columns, from row r and column c on
MatchesOfName(possible_name, bc_df, name_columns, r, c) ==
  LET n == Len(name_columns)
      cells == [k \in 1..(Len(bc_df) * n) |->
                  <<((k - 1) \div n) + 1, ((k - 1) % n) + 1>>]
      candidate_name(cell) ==
        IF name_columns[cell[2]] \in DOMAIN bc_df[cell[1]]
        THEN normalize_customer_name(bc_df[cell[1]][name_columns[cell[2]]])
        ELSE <<>>
      keep(cell) ==
        /\ cell[1] > r \/ (cell[1] = r /\ cell[2] >= c)
        /\ name_columns[cell[2]] \in DOMAIN bc_df[cell[1]]
        /\ candidate_name(cell) # <<>>
        /\ RatioGTPct(similarity(possible_name, candidate_name(cell)),
                      PrefilterPct)
      kept == SelectSeq(cells, keep)
  IN [k \in 1..Len(kept) |->
        [row |-> bc_df[kept[k][1]],
         similarity_score |-> similarity(possible_name,
                                         candidate_name(kept[k])),
         matched_column |-> name_columns[kept[k][2]],
         search_name |-> possible_name]]

RECURSIVE AllMatches(_, _, _)
AllMatches(possible_names, bc_df, name_columns) ==
  IF possible_names = <<>> THEN <<>>
  ELSE MatchesOfName(Head(possible_names), bc_df, name_columns, 1, 1)
       \o AllMatches(Tail(possible_names), bc_df, name_columns)

\* the sort in ascending order of similarity
RECURSIVE InsertByScore_Ascending(_, _)
InsertByScore_Ascending(m, sorted) ==
  IF sorted = <<>> THEN <<m>>
  ELSE IF RatioGT(Head(sorted).similarity_score, m.similarity_score)
       THEN <<m>> \o sorted
       ELSE <<Head(sorted)>> \o InsertByScore_Ascending(m, Tail(sorted))

\* sort_values('similarity_score', ascending=False); records that tie
\* stay in input order (numpy sorts fewer than 17 items by insertion)
RECURSIVE InsertByScore(_, _)
InsertByScore(m, sorted) ==
  IF sorted = <<>> THEN <<m>>
  ELSE IF RatioGT(m.similarity_score, Head(sorted).similarity_score)
       THEN <<m>> \o sorted
       ELSE <<Head(sorted)>> \o InsertByScore(m, Tail(sorted))

RECURSIVE SortByScore(_)
SortByScore(ms) ==
  IF ms = <<>> THEN <<>>
  ELSE InsertByScore(ms[Len(ms)], SortByScore(SubSeq(ms, 1, Len(ms) - 1)))

\* drop_duplicates(subset=['CUSTOMER_NAME'], keep='first')
RECURSIVE DropDuplicateNames(_, _)
DropDuplicateNames(ms, seen) ==
  IF ms = <<>> THEN <<>>
  ELSE IF Head(ms).row["CUSTOMER_NAME"] \in seen
       THEN DropDuplicateNames(Tail(ms), seen)
       ELSE <<Head(ms)>>
            \o DropDuplicateNames(Tail(ms),
                                   seen \cup {Head(ms).row["CUSTOMER_NAME"]})

\* DataFrame.head(n)
HeadN(ms, n) == SubSeq(ms, 1, IF Len(ms) < n THEN Len(ms) ELSE n)

\* get_top_matches_from_bc
get_top_matches_from_bc(possible_names, bc_df, name_columns, top_n) ==
  HeadN(DropDuplicateNames(
          SortByScore(AllMatches(possible_names, bc_df, name_columns)), {}),
        top_n)

(***************************************************************************)
(* Description fields of a batch row                                       *)
(***************************************************************************)

\* description_columns of get_description_value and
\* get_all_description_fields_info, in order of preference
description_columns ==
  <<"DESCRIPTION", "Description", "Transaction Description",
    "Transaction Description.1", "Transaction Description.2",
    "Transaction Ref", "TRANSACTION_DESCRIPTION", "transaction_description",
    "DESC", "REMARKS", "Remarks", "NARRATIVE", "Narrative", "DETAILS",
    "Details", "MEMO", "Memo">>

\* str(cell): a missing cell prints as 'nan'
StrOfCell(cell) == IF cell = NaN THEN <<"n", "a", "n">> ELSE cell

\* the cell test without its comparison with 'nan'
UsableDescription_NanIsText(value) ==
  /\ value # <<>>
  /\ Strip(value) # <<>>

\* the test both functions apply to a cell:
\* value and value.strip() and value.lower() != 'nan'
UsableDescription(value) ==
  /\ value # <<>>
  /\ Strip(value) # <<>>
  /\ Lower(value) # <<"n", "a", "n">>

\* the loop of get_description_value(combine_all=True) from column k on
RECURSIVE FoundDescriptions(_, _, _, _)
FoundDescriptions(row, df_columns, k, found) ==
  IF k > Len(description_columns) THEN found
  ELSE
    LET col_name == description_columns[k]
        value == StrOfCell(row[col_name])
        cleaned_value == Strip(value)
    IN IF /\ col_name \in df_columns
          /\ UsableDescription(value)
          /\ \A j \in 1..Len(found) : found[j] # cleaned_value
       THEN FoundDescriptions(row, df_columns, k + 1,
                              Append(found, cleaned_value))
       ELSE FoundDescriptions(row, df_columns, k + 1, found)

\* " | ".join(found_descriptions)
RECURSIVE JoinBar(_)
JoinBar(found) ==
  IF found = <<>> THEN <<>>
  ELSE IF Len(found) = 1 THEN found[1]
  ELSE found[1] \o <<" ", "|", " ">> \o JoinBar(Tail(found))

\* get_description_value(row, df_columns, combine_all=True)
get_description_value(row, df_columns) ==
  JoinBar(FoundDescriptions(row, df_columns, 1, <<>>))

\* get_all_description_fields_info: the columns that hold a usable value
get_all_description_fields_info(row, df_columns) ==
  LET cols == {description_columns[k] : k \in 1..Len(description_columns)}
      used == {c \in cols \cap df_columns :
                 UsableDescription(StrOfCell(row[c]))}
  IN [c \in used |-> Strip(StrOfCell(row[c]))]

(***************************************************************************)
(* The AI collaborator's replies and what the two stages make of them      *)
(***************************************************************************)

\* a dict without one key
Without(d, k) == [x \in DOMAIN d \ {k} |-> d[x]]

\* JSON null / Python None where a dict is expected
JsonNull == [null |-> TRUE]

\* extract_json_from_response.  A reply's content is bare JSON, JSON in a
\* ```json fence, JSON embedded in prose, or prose.  json.loads fails on
\* the last two, and the fallback then calls re.search although the module
\* never imports re, so both raise.
extract_json_from_response(content) ==
  IF content.form \in {"json", "fenced_json"}
  THEN [raised |-> FALSE, value |-> content.value]
  ELSE [raised |-> TRUE, value |-> JsonNull]

\* the dict stage1_analyze_description returns from its except branch
Stage1Fallback ==
  [analysis |-> "Stage 1 analysis failed",
   is_current_name_appropriate |-> TRUE,
   confidence_in_current |-> 50,
   possible_alternatives |-> <<>>,
   recommended_action |-> "keep_current",
   reasoning |-> "AI analysis failed, keeping current name"]

\* stage1_analyze_description: the remote call may throw; the parsed dict
\* is returned only if the log line after parsing finds both keys it reads
stage1_analyze_description(reply) ==
  IF reply.throws THEN Stage1Fallback
  ELSE LET parsed == extract_json_from_response(reply.content)
       IN IF parsed.raised THEN Stage1Fallback
          ELSE IF {"recommended_action", "analysis"} \subseteq DOMAIN parsed.value
               THEN parsed.value
               ELSE Stage1Fallback

\* the dict stage2_score_matches returns from its except branch
Stage2Fallback ==
  [analysis |-> "Stage 2 scoring failed",
   selected_match |-> JsonNull,
   confidence_score |-> [type |-> "int", v |-> 0],
   recommendation |-> "no_match",
   reasoning |-> "AI scoring failed"]

\* the keys of the Stage 1 result that stage2_score_matches reads while it
\* builds its prompt, before its try block
Stage2PromptKeys ==
  {"is_current_name_appropriate", "confidence_in_current",
   "possible_alternatives", "reasoning"}

\* stage2_score_matches, for a non-empty candidate list: a KeyError while
\* building the prompt escapes; a failure inside the try block does not
stage2_score_matches(stage1_analysis, reply) ==
  IF ~(Stage2PromptKeys \subseteq DOMAIN stage1_analysis)
  THEN [raised |-> TRUE, value |-> JsonNull]
  ELSE IF reply.throws THEN [raised |-> FALSE, value |-> Stage2Fallback]
  ELSE LET parsed == extract_json_from_response(reply.content)
       IN IF parsed.raised THEN [raised |-> FALSE, value |-> Stage2Fallback]
          ELSE IF {"confidence_score", "recommendation"}
                    \subseteq DOMAIN parsed.value
               THEN [raised |-> FALSE, value |-> parsed.value]
               ELSE [raised |-> FALSE, value |-> Stage2Fallback]

\* the early return taken on Stage 1's view of the current name instead
\* of on its recommended action
Stage1Ends_ByAppropriateness(stage1_result) ==
  /\ "is_current_name_appropriate" \in DOMAIN stage1_result
  /\ stage1_result.is_current_name_appropriate

\* ai_two_stage_matching line 814: Stage 1 ends the AI stage
Stage1Ends(stage1_result) ==
  stage1_result.recommended_action = "keep_current"

\* the confidence floor of ai_two_stage_matching
AcceptFloor == 90

\* the final test of ai_two_stage_matching.  The conjuncts are evaluated
\* left to right and stop at the first false one.
AIDecisionRaises(stage2_result) ==
  /\ stage2_result.recommendation = "update_customer"
  /\ \/ stage2_result.confidence_score.type # "int"
     \/ /\ stage2_result.confidence_score.v >= AcceptFloor
        /\ \/ "selected_match" \notin DOMAIN stage2_result
           \/ /\ stage2_result.selected_match # JsonNull
              /\ "customer_name" \notin DOMAIN stage2_result.selected_match

\* the decision with the confidence floor set ten points too low
AIDecisionAccepts_LowFloor(stage2_result) ==
  /\ ~AIDecisionRaises(stage2_result)
  /\ stage2_result.recommendation = "update_customer"
  /\ stage2_result.confidence_score.v >= 80
  /\ stage2_result.selected_match # JsonNull
  /\ stage2_result.selected_match.customer_name # <<>>

AIDecisionAccepts(stage2_result) ==
  /\ ~AIDecisionRaises(stage2_result)
  /\ stage2_result.recommendation = "update_customer"
  /\ stage2_result.confidence_score.v >= AcceptFloor
  /\ stage2_result.selected_match # JsonNull
  /\ stage2_result.selected_match.customer_name # <<>>

(***************************************************************************)
(* Bounded inputs                                                          *)
(***************************************************************************)

\* the longest batch file the model reads
MaxRows == 2

\* names and description texts
AC == <<"A", "C">>
ACE == <<"A", "C", "E">>
AceBlank == <<"a", "c", "e", " ">>
MX == <<"M", "X">>
MY == <<"M", "Y">>
YY == <<"Y", "Y">>
BB == <<"B", "B">>
XA == <<"X", "A">>
XaLower == <<"x", "a">>
ACEX == <<"A", "C", "E", "X">>
Inv == <<"i", "n", "v">>
Blank == <<" ">>
NA == <<"N", "A">>
Transferred == <<"T", "r", "a", "n", "s", "f", "e", "r", "r", "e", "d">>

\* the curated alias table (MY_MBB_CUSTOMER_NAME.csv): bank wording AC is
\* the customer XA
AliasRows ==
  << ("SPECIAL NAME BANK IN" :> AC) @@ ("CUSTOMER NAME" :> XA) >>

\* the cached directory (BC_MY_CUSTOMERS.csv)
DirectoryRows ==
  << [CUSTOMER_NAME |-> ACE, CONTACT |-> NaN],
     [CUSTOMER_NAME |-> MX, CONTACT |-> BB],
     [CUSTOMER_NAME |-> BB, CONTACT |-> ACEX] >>

\* a row of the processed batch file
BatchRow(name, desc, txn, status) ==
  ("CUSTOMER_NAME" :> name) @@ ("DESCRIPTION" :> desc)
    @@ ("Transaction Description" :> txn) @@ ("STATUS" :> status)

\* the rows a batch file is made of
RowPool ==
  { BatchRow(AC, NaN, NaN, NaN),
    BatchRow(AceBlank, Inv, NaN, Transferred),
    BatchRow(MY, Inv, NaN, NaN),
    BatchRow(MY, NaN, Blank, NaN),
    BatchRow(NaN, Inv, NaN, NaN),
    BatchRow(YY, NaN, Inv, NaN),
    BatchRow(XaLower, NaN, NaN, NaN),
    BatchRow(ACEX, NaN, NaN, NaN),
    BatchRow(MY, NA, NaN, NaN) }

Batches == UNION { [1..n -> RowPool] : n \in 1..MaxRows }

\* a complete Stage 1 answer
Stage1Full(action, alternatives) ==
  [analysis |-> "a",
   is_current_name_appropriate |-> FALSE,
   confidence_in_current |-> 40,
   possible_alternatives |-> alternatives,
   recommended_action |-> action,
   reasoning |-> "r"]

Bare(value) == [throws |-> FALSE, content |-> [form |-> "json", value |-> value]]
Thrown == [throws |-> TRUE, content |-> [form |-> "prose", value |-> JsonNull]]
InForm(form, value) == [throws |-> FALSE, content |-> [form |-> form, value |-> value]]

\* what the Stage 1 call can come back with
Stage1Replies ==
  { Thrown,
    InForm("prose", JsonNull),
    InForm("prose_with_json", Stage1Full("search_alternatives", <<ACE>>)),
    InForm("fenced_json", Stage1Full("search_alternatives", <<ACE>>)),
    Bare(Stage1Full("keep_current", <<ACE>>)),
    Bare(Stage1Full("search_alternatives", <<>>)),
    Bare(Stage1Full("search_alternatives", <<ACE>>)),
    Bare(Stage1Full("look_elsewhere", <<ACE>>)),
    Bare(Without(Stage1Full("search_alternatives", <<ACE>>), "recommended_action")),
    Bare(Without(Stage1Full("search_alternatives", <<ACE>>), "possible_alternatives")),
    Bare(Without(Stage1Full("search_alternatives", <<ACE>>), "reasoning")) }

\* a complete Stage 2 answer
Stage2Full(name, confidence, recommendation) ==
  [analysis |-> "a",
   selected_match |-> [customer_name |-> name],
   confidence_score |-> [type |-> "int", v |-> confidence],
   recommendation |-> recommendation]

\* what the Stage 2 call can come back with
Stage2Replies ==
  { Thrown,
    InForm("prose", JsonNull),
    Bare(Stage2Full(ACE, 89, "update_customer")),
    Bare(Stage2Full(ACE, 90, "update_customer")),
    Bare(Stage2Full(ACE, 90, "no_match")),
    Bare(Stage2Full(MY, 90, "update_customer")),
    Bare(Stage2Full(<<>>, 90, "update_customer")),
    Bare(Stage2Full(XA, 100, "update_customer")),
    Bare([Stage2Full(ACE, 95, "update_customer") EXCEPT !.selected_match = JsonNull]),
    Bare([Stage2Full(ACE, 95, "update_customer") EXCEPT !.selected_match = [reasoning |-> "r"]]),
    Bare([Stage2Full(ACE, 95, "update_customer") EXCEPT !.confidence_score = [type |-> "str", v |-> 95]]),
    Bare(Without(Stage2Full(ACE, 95, "update_customer"), "selected_match")),
    Bare(Without(Stage2Full(ACE, 95, "update_customer"), "confidence_score")) }

\* the reply departs from the documented schema of section 4.5: the call
\* threw, the content is not parseable, a documented field is missing or a
\* field holds a value outside its documented range
MalformedStage1(reply) ==
  \/ reply.throws
  \/ reply.content.form \notin {"json", "fenced_json"}
  \/ ~({"is_current_name_appropriate", "confidence_in_current",
         "possible_alternatives", "recommended_action"}
          \subseteq DOMAIN reply.content.value)
  \/ reply.content.value.recommended_action
       \notin {"keep_current", "search_alternatives"}

MalformedStage2(reply) ==
  \/ reply.throws
  \/ reply.content.form \notin {"json", "fenced_json"}
  \/ ~({"selected_match", "confidence_score", "recommendation"}
          \subseteq DOMAIN reply.content.value)
  \/ reply.content.value.recommendation \notin {"update_customer", "no_match"}
  \/ reply.content.value.confidence_score.type # "int"
  \/ reply.content.value.confidence_score.v \notin 0..100
  \/ /\ reply.content.value.selected_match # JsonNull
     /\ "customer_name" \notin DOMAIN reply.content.value.selected_match

(***************************************************************************)
(* State                                                                   *)
(***************************************************************************)

VARIABLES
  local_db,          \* the alias-table file: [exists, rows]
  bc_cache,          \* the directory cache file: [exists, rows]
  openai_api_key,    \* TRUE iff an API key is configured
  processed_file,    \* the rows of the processed batch file on disk
  batch0,            \* the rows the batch file held when the run started
  customer_df,       \* the alias table in memory
  bc_df,             \* the directory in memory: [loaded, rows]
  input_df,          \* the batch in memory
  ai_matcher,        \* TRUE iff the AI matcher was constructed
  pc,                \* position in update_customer_name_for_file_dual
  index,             \* the row of input_df the loop is at
  stage1_result,     \* Stage 1 result of the row in progress
  top_matches,       \* Stage 2 candidates of the row in progress
  ai_analysis_log,   \* the analysis entries collected by the run
  ai_log_file,       \* the analysis log file on disk
  calls,             \* per row: the stages consulted and the writes made
  month_value,       \* the month the configuration names (date_utils)
  pay_df,            \* the batch in memory of the payment run
  pay_pc,            \* position in FinanceWorkflow.process
  pay_i,             \* the row of pay_df the payment loop is at
  runs,              \* payment runs started so far
  output_xlsx,       \* data/output/<batch>_updated.xlsx: [exists, rows]
  bc_ledger,         \* the payments created in Business Central
  lookups,           \* the customer lookups sent to Business Central
  fn_pc,             \* which function a single call applies, and whether it has
  fn_arg,            \* the arguments of the call
  fn_out             \* what the call returned

recon_vars ==
  <<local_db, bc_cache, openai_api_key, processed_file, batch0, customer_df,
    bc_df, input_df, ai_matcher, pc, index, stage1_result, top_matches,
    ai_analysis_log, ai_log_file, calls>>

pay_vars ==
  <<month_value, pay_df, pay_pc, pay_i, runs, output_xlsx, bc_ledger, lookups>>

fn_vars == <<fn_pc, fn_arg, fn_out>>

vars == <<recon_vars, pay_vars, fn_vars>>

\* the payment run is not part of the reconciliation run, and conversely
PayIdle ==
  /\ month_value = 0
  /\ pay_df = <<>>
  /\ pay_pc = "off"
  /\ pay_i = 0
  /\ runs = 0
  /\ output_xlsx = [exists |-> FALSE, rows |-> <<>>]
  /\ bc_ledger = <<>>
  /\ lookups = <<>>

\* no single function call is part of a reconciliation or payment run
FnIdle ==
  /\ fn_pc = "off"
  /\ fn_arg = <<>>
  /\ fn_out = <<>>

\* default thresholds of update_customer_name_for_file_dual, in percent
LocalThresholdPct == 95
BcThresholdPct == 75

local_db_columns == <<"SPECIAL NAME BANK IN", "CUSTOMER NAME">>
bc_cache_columns == <<"CUSTOMER_NAME", "CONTACT">>

\* what is recorded of a row: the stages consulted, the action Stage 1
\* returned, whether a reply departed from the documented schema, the
\* writes to CUSTOMER_NAME, and how the row ended
NoCalls ==
  [local |-> FALSE, bc |-> FALSE, ai |-> FALSE, stage1 |-> "not_called",
   search |-> FALSE, stage2 |-> FALSE, malformed |-> FALSE,
   writes |-> <<>>, decision |-> "none"]

Init ==
  /\ local_db \in {[exists |-> TRUE, rows |-> AliasRows],
                   [exists |-> FALSE, rows |-> <<>>]}
  /\ bc_cache \in {[exists |-> TRUE, rows |-> DirectoryRows],
                   [exists |-> FALSE, rows |-> <<>>]}
  /\ openai_api_key \in BOOLEAN
  /\ processed_file \in Batches
  /\ batch0 = processed_file
  /\ customer_df = <<>>
  /\ bc_df = [loaded |-> FALSE, rows |-> <<>>]
  /\ input_df = <<>>
  /\ ai_matcher = FALSE
  /\ pc = "start"
  /\ index = 0
  /\ stage1_result = JsonNull
  /\ top_matches = <<>>
  /\ ai_analysis_log = <<>>
  /\ ai_log_file = <<>>
  /\ calls = [i \in 1..Len(processed_file) |-> NoCalls]
  /\ PayIdle
  /\ FnIdle

(***************************************************************************)
(* update_customer_name_for_file_dual                                      *)
(***************************************************************************)

\* lines 238-293: the registries and the batch are read; a missing alias
\* table, or a file that cannot be read, ends the run; a missing directory or API key, or a matcher that
\* cannot be constructed, switches the AI fallback off
\* pd.read_csv with its defaults: a cell whose text is one of the NA
\* tokens is read as missing, like an empty cell
NaTokens ==
  { <<"N", "A">>, <<"N", "a", "N">>, <<"n", "a", "n">>,
    <<"n", "u", "l", "l">>, <<"N", "U", "L", "L">>, <<"N", "/", "A">> }

read_csv(rows) ==
  [i \in DOMAIN rows |->
     [c \in DOMAIN rows[i] |->
        IF rows[i][c] \in NaTokens THEN NaN ELSE rows[i][c]]]

\* DataFrame.to_csv(index=False): a missing cell is written empty
to_csv(df) == df

LoadFiles ==
  /\ pc = "start"
  /\ \E readable \in BOOLEAN :
     IF ~local_db.exists \/ ~readable
     THEN /\ pc' = "returned_false"
          /\ UNCHANGED <<customer_df, bc_df, input_df, ai_matcher, index>>
     ELSE /\ customer_df' = read_csv(local_db.rows)
          /\ input_df' = read_csv(processed_file)
          /\ bc_df' = IF bc_cache.exists
                      THEN [loaded |-> TRUE, rows |-> read_csv(bc_cache.rows)]
                      ELSE [loaded |-> FALSE, rows |-> <<>>]
          /\ \E constructed \in BOOLEAN :
               ai_matcher' = (bc_cache.exists /\ openai_api_key /\ constructed)
          /\ index' = 1
          /\ pc' = "row"
  /\ UNCHANGED <<pay_vars, fn_vars>>
  /\ UNCHANGED <<local_db, bc_cache, openai_api_key, processed_file, batch0,
                 stage1_result, top_matches, ai_analysis_log, ai_log_file,
                 calls>>

\* the loop moves to the next row, or to the save after the last row
NextRowPc == IF index = Len(input_df) THEN "save" ELSE "row"

\* the write appending the new name to the name already in the cell
SetName_Appends(df, i, value) ==
  [df EXCEPT ![i]["CUSTOMER_NAME"] = @ \o <<" ">> \o value]

\* input_df.at[index, "CUSTOMER_NAME"] = value
SetName(df, i, value) == [df EXCEPT ![i]["CUSTOMER_NAME"] = value]

\* the alias-table step without the continue of line 333: after an
\* accepted alias entry the row still goes on to the directory
LocalStage_FallsThrough ==
  /\ pc = "row"
  /\ LET input_customer_name ==
           normalize_customer_name(input_df[index]["CUSTOMER_NAME"])
         found == find_best_match_in_dataframe(
                    input_customer_name, customer_df, local_db_columns,
                    LocalThresholdPct)
         new_customer_name ==
           normalize_customer_name(customer_df[found.best_match]["CUSTOMER NAME"])
     IN IF input_customer_name = <<>>
        THEN /\ pc' = NextRowPc
             /\ index' = index + 1
             /\ calls' = [calls EXCEPT ![index].decision = "skipped_empty"]
             /\ UNCHANGED input_df
        ELSE IF found.best_match # 0
        THEN /\ input_df' = SetName(input_df, index, new_customer_name)
             /\ calls' = [calls EXCEPT
                  ![index].local = TRUE,
                  ![index].writes = Append(@, [by |-> "local",
                                                value |-> new_customer_name])]
             /\ pc' = "bc"
             /\ UNCHANGED index
        ELSE /\ calls' = [calls EXCEPT ![index].local = TRUE]
             /\ pc' = "bc"
             /\ UNCHANGED <<input_df, index>>
  /\ UNCHANGED <<pay_vars, fn_vars>>
  /\ UNCHANGED <<local_db, bc_cache, openai_api_key, processed_file, batch0,
                 customer_df, bc_df, ai_matcher, stage1_result, top_matches,
                 ai_analysis_log, ai_log_file>>

\* lines 312-333: an empty name skips the row; otherwise the alias table
\* is searched and an accepted entry's canonical name is written
LocalStage ==
  /\ pc = "row"
  /\ LET input_customer_name ==
           normalize_customer_name(input_df[index]["CUSTOMER_NAME"])
         found == find_best_match_in_dataframe(
                    input_customer_name, customer_df, local_db_columns,
                    LocalThresholdPct)
         new_customer_name ==
           normalize_customer_name(customer_df[found.best_match]["CUSTOMER NAME"])
     IN IF input_customer_name = <<>>
        THEN /\ pc' = NextRowPc
             /\ index' = index + 1
             /\ calls' = [calls EXCEPT ![index].decision = "skipped_empty"]
             /\ UNCHANGED input_df
        ELSE IF found.best_match # 0
        THEN /\ input_df' = SetName(input_df, index, new_customer_name)
             /\ calls' = [calls EXCEPT
                  ![index].local = TRUE,
                  ![index].decision = "local_match",
                  ![index].writes = Append(@, [by |-> "local",
                                                value |-> new_customer_name])]
             /\ pc' = NextRowPc
             /\ index' = index + 1
        ELSE /\ calls' = [calls EXCEPT ![index].local = TRUE]
             /\ pc' = "bc"
             /\ UNCHANGED <<input_df, index>>
  /\ UNCHANGED <<pay_vars, fn_vars>>
  /\ UNCHANGED <<local_db, bc_cache, openai_api_key, processed_file, batch0,
                 customer_df, bc_df, ai_matcher, stage1_result, top_matches,
                 ai_analysis_log, ai_log_file>>

\* the directory step writing the value the similarity was reached on
\* instead of the row's customer name
BCStage_WritesMatchedValue ==
  /\ pc = "bc"
  /\ LET input_customer_name ==
           normalize_customer_name(input_df[index]["CUSTOMER_NAME"])
         found == find_best_match_in_dataframe(
                    input_customer_name, bc_df.rows, bc_cache_columns,
                    BcThresholdPct)
         new_customer_name ==
           normalize_customer_name(
             bc_df.rows[found.best_match][found.best_match_type])
     IN IF bc_df.loaded /\ found.best_match # 0
        THEN /\ input_df' = SetName(input_df, index, new_customer_name)
             /\ calls' = [calls EXCEPT
                  ![index].bc = TRUE,
                  ![index].decision = "bc_match",
                  ![index].writes = Append(@, [by |-> "bc",
                                                value |-> new_customer_name])]
             /\ pc' = NextRowPc
             /\ index' = index + 1
        ELSE /\ calls' = [calls EXCEPT ![index].bc = bc_df.loaded]
             /\ pc' = "ai"
             /\ UNCHANGED <<input_df, index>>
  /\ UNCHANGED <<pay_vars, fn_vars>>
  /\ UNCHANGED <<local_db, bc_cache, openai_api_key, processed_file, batch0,
                 customer_df, bc_df, ai_matcher, stage1_result, top_matches,
                 ai_analysis_log, ai_log_file>>

\* lines 335-346: the directory, when loaded, is searched and an accepted
\* entry's name is written
BCStage ==
  /\ pc = "bc"
  /\ LET input_customer_name ==
           normalize_customer_name(input_df[index]["CUSTOMER_NAME"])
         found == find_best_match_in_dataframe(
                    input_customer_name, bc_df.rows, bc_cache_columns,
                    BcThresholdPct)
         new_customer_name ==
           normalize_customer_name(bc_df.rows[found.best_match]["CUSTOMER_NAME"])
     IN IF bc_df.loaded /\ found.best_match # 0
        THEN /\ input_df' = SetName(input_df, index, new_customer_name)
             /\ calls' = [calls EXCEPT
                  ![index].bc = TRUE,
                  ![index].decision = "bc_match",
                  ![index].writes = Append(@, [by |-> "bc",
                                                value |-> new_customer_name])]
             /\ pc' = NextRowPc
             /\ index' = index + 1
        ELSE /\ calls' = [calls EXCEPT ![index].bc = bc_df.loaded]
             /\ pc' = "ai"
             /\ UNCHANGED <<input_df, index>>
  /\ UNCHANGED <<pay_vars, fn_vars>>
  /\ UNCHANGED <<local_db, bc_cache, openai_api_key, processed_file, batch0,
                 customer_df, bc_df, ai_matcher, stage1_result, top_matches,
                 ai_analysis_log, ai_log_file>>

\* lines 349-355 and 390-396: the AI fallback runs only with a matcher and
\* a usable combined description; otherwise the row ends unmatched
AIGate ==
  /\ pc = "ai"
  /\ LET df_columns == DOMAIN input_df[index]
         combined_description ==
           get_description_value(input_df[index], df_columns)
     IN IF ai_matcher /\ Strip(combined_description) # <<>>
        THEN /\ pc' = "stage1"
             /\ calls' = [calls EXCEPT ![index].ai = TRUE]
             /\ UNCHANGED index
        ELSE /\ pc' = NextRowPc
             /\ index' = index + 1
             /\ calls' = [calls EXCEPT ![index].decision = "no_match"]
  /\ UNCHANGED <<pay_vars, fn_vars>>
  /\ UNCHANGED <<local_db, bc_cache, openai_api_key, processed_file, batch0,
                 customer_df, bc_df, input_df, ai_matcher, stage1_result,
                 top_matches, ai_analysis_log, ai_log_file>>

\* the entry update_customer_name_for_file_dual appends to its analysis
\* log once ai_two_stage_matching has returned (lines 374-380)
LogEntry(analysis) ==
  LET df_columns == DOMAIN input_df[index]
  IN [row |-> index,
      original_name |->
        normalize_customer_name(input_df[index]["CUSTOMER_NAME"]),
      description_fields |->
        get_all_description_fields_info(input_df[index], df_columns),
      combined_description |->
        get_description_value(input_df[index], df_columns),
      analysis |-> analysis]

\* list(dict.fromkeys(names)): duplicates removed, first occurrences kept
RECURSIVE Dedupe(_, _)
Dedupe(names, seen) ==
  IF names = <<>> THEN <<>>
  ELSE IF Head(names) \in seen THEN Dedupe(Tail(names), seen)
  ELSE <<Head(names)>> \o Dedupe(Tail(names), seen \cup {Head(names)})

\* ai_two_stage_matching lines 810-828 with stage1_analyze_description:
\* keep_current ends the AI stage for the row; any other action goes on
\* to the search and needs the alternatives
Stage1Step ==
  /\ pc = "stage1"
  /\ \E reply \in Stage1Replies :
       LET result == stage1_analyze_description(reply)
           odd == calls[index].malformed \/ MalformedStage1(reply)
       IN IF Stage1Ends(result)
          THEN /\ ai_analysis_log' =
                    Append(ai_analysis_log,
                           LogEntry([stage1 |-> result, stage2 |-> JsonNull,
                                     final_decision |-> "kept_current"]))
               /\ calls' = [calls EXCEPT
                    ![index].stage1 = result.recommended_action,
                    ![index].malformed = odd,
                    ![index].decision = "no_match"]
               /\ pc' = NextRowPc
               /\ index' = index + 1
               /\ UNCHANGED stage1_result
          ELSE IF "possible_alternatives" \notin DOMAIN result
          THEN /\ pc' = "raised"
               /\ calls' = [calls EXCEPT
                    ![index].stage1 = result.recommended_action,
                    ![index].malformed = odd]
               /\ UNCHANGED <<ai_analysis_log, index, stage1_result>>
          ELSE /\ stage1_result' = result
               /\ calls' = [calls EXCEPT
                    ![index].stage1 = result.recommended_action,
                    ![index].malformed = odd]
               /\ pc' = "search"
               /\ UNCHANGED <<ai_analysis_log, index>>
  /\ UNCHANGED <<pay_vars, fn_vars>>
  /\ UNCHANGED <<local_db, bc_cache, openai_api_key, processed_file, batch0,
                 customer_df, bc_df, input_df, ai_matcher, top_matches,
                 ai_log_file>>

\* ai_two_stage_matching lines 823-845: the directory candidates for the
\* original name and the alternatives; none found ends the AI stage
SearchStep ==
  /\ pc = "search"
  /\ LET customer_name ==
           normalize_customer_name(input_df[index]["CUSTOMER_NAME"])
         possible_names ==
           Dedupe(<<customer_name>> \o stage1_result.possible_alternatives, {})
         found == get_top_matches_from_bc(possible_names, bc_df.rows,
                                          bc_cache_columns, TopN)
     IN IF found = <<>>
        THEN /\ ai_analysis_log' =
                  Append(ai_analysis_log,
                         LogEntry([stage1 |-> stage1_result,
                                   stage2 |-> [analysis |-> "No matches found in BC database"],
                                   final_decision |-> "no_matches_found"]))
             /\ calls' = [calls EXCEPT ![index].search = TRUE,
                                       ![index].decision = "no_match"]
             /\ pc' = NextRowPc
             /\ index' = index + 1
             /\ stage1_result' = JsonNull
             /\ UNCHANGED top_matches
        ELSE /\ top_matches' = found
             /\ calls' = [calls EXCEPT ![index].search = TRUE]
             /\ pc' = "stage2"
             /\ UNCHANGED <<ai_analysis_log, index, stage1_result>>
  /\ UNCHANGED <<pay_vars, fn_vars>>
  /\ UNCHANGED <<local_db, bc_cache, openai_api_key, processed_file, batch0,
                 customer_df, bc_df, input_df, ai_matcher, ai_log_file>>

\* ai_two_stage_matching lines 847-872 with stage2_score_matches, and the
\* caller's lines 374-389: the name is overwritten when the decision
\* accepts and the selected name differs from the current one
Stage2Step ==
  /\ pc = "stage2"
  /\ \E reply \in Stage2Replies :
       LET input_customer_name ==
             normalize_customer_name(input_df[index]["CUSTOMER_NAME"])
           scored == stage2_score_matches(stage1_result, reply)
           stage2_result == scored.value
           accepted == AIDecisionAccepts(stage2_result)
           ai_result == IF accepted
                        THEN stage2_result.selected_match.customer_name
                        ELSE input_customer_name
           written == accepted /\ ai_result # input_customer_name
           odd == calls[index].malformed \/ MalformedStage2(reply)
       IN IF scored.raised \/ AIDecisionRaises(stage2_result)
          THEN /\ pc' = "raised"
               /\ calls' = [calls EXCEPT ![index].stage2 = TRUE,
                                         ![index].malformed = odd]
               /\ UNCHANGED <<input_df, ai_analysis_log, index,
                              stage1_result, top_matches>>
          ELSE /\ ai_analysis_log' =
                    Append(ai_analysis_log,
                           LogEntry([stage1 |-> stage1_result,
                                     stage2 |-> stage2_result,
                                     final_decision |->
                                       IF accepted THEN "updated_customer"
                                       ELSE "insufficient_confidence"]))
               /\ input_df' = IF written
                              THEN SetName(input_df, index, ai_result)
                              ELSE input_df
               /\ calls' = [calls EXCEPT
                    ![index].stage2 = TRUE,
                    ![index].malformed = odd,
                    ![index].decision = IF written THEN "ai_match"
                                        ELSE "no_match",
                    ![index].writes =
                      IF written
                      THEN Append(@, [by |-> "ai", value |-> ai_result])
                      ELSE @]
               /\ pc' = NextRowPc
               /\ index' = index + 1
               /\ stage1_result' = JsonNull
               /\ top_matches' = <<>>
  /\ UNCHANGED <<pay_vars, fn_vars>>
  /\ UNCHANGED <<local_db, bc_cache, openai_api_key, processed_file, batch0,
                 customer_df, bc_df, ai_matcher, ai_log_file>>

\* lines 398-406 and 431: the batch and the analysis log are written
SaveStep ==
  /\ pc = "save"
  /\ processed_file' = to_csv(input_df)
  /\ ai_log_file' = IF ai_analysis_log # <<>> THEN ai_analysis_log
                    ELSE ai_log_file
  /\ pc' = "returned_true"
  /\ UNCHANGED <<pay_vars, fn_vars>>
  /\ UNCHANGED <<local_db, bc_cache, openai_api_key, batch0, customer_df,
                 bc_df, input_df, ai_matcher, index, stage1_result,
                 top_matches, ai_analysis_log, calls>>

Next ==
  \/ LoadFiles
  \/ LocalStage
  \/ BCStage
  \/ AIGate
  \/ Stage1Step
  \/ SearchStep
  \/ Stage2Step
  \/ SaveStep

Spec == Init /\ [][Next]_vars

(***************************************************************************)
(* The payment run: core/MY_mbb_create_pymt.py with utils/payment_utils.py *)
(* and utils/date_utils.py                                                 *)
(***************************************************************************)

\* the number of payment runs over one batch file
MaxRuns == 2

Digits == {"0", "1", "2", "3", "4", "5", "6", "7", "8", "9"}

\* clean_numeric: a missing or blank cell is '0'; otherwise the text is
\* stripped of blanks, then of quote characters at its ends, and of commas
RECURSIVE StripQuotes(_)
StripQuotes(s) ==
  IF s = <<>> THEN s
  ELSE IF Head(s) \in {"\"", "'"} THEN StripQuotes(Tail(s))
  ELSE IF s[Len(s)] \in {"\"", "'"} THEN StripQuotes(SubSeq(s, 1, Len(s) - 1))
  ELSE s

clean_numeric(val) ==
  IF val = NaN \/ Strip(val) = <<>> THEN <<"0">>
  ELSE ReplaceAll(StripQuotes(Strip(val)), <<",">>, <<>>)

\* float(text) succeeds, for texts of digits and points: some digit and
\* at most one point
FloatParses(text) ==
  /\ text # NaN
  /\ \A k \in 1..Len(text) : text[k] \in Digits \cup {"."}
  /\ \E k \in 1..Len(text) : text[k] \in Digits
  /\ Cardinality({k \in 1..Len(text) : text[k] = "."}) <= 1

\* a posting-date cell is the text YYYY-A-B, written [y, a, b], or is
\* missing (NaNDate); a formatted date is the text YYYY-MM-DD, written
\* [y, m, d], or is the empty text (NoDate)
NaNDate == [y |-> 0, a |-> 0, b |-> 0]
NoDate == [y |-> 0, m |-> 0, d |-> 0]

DaysInMonth(y, m) ==
  IF m \in {4, 6, 9, 11} THEN 30
  ELSE IF m = 2
       THEN IF (y % 4 = 0 /\ y % 100 # 0) \/ y % 400 = 0 THEN 29 ELSE 28
       ELSE 31

\* datetime.strptime accepts the year, month and day
ValidDate(y, m, d) == m \in 1..12 /\ d \in 1..DaysInMonth(y, m)

\* convert_date for a text A/B/YYYY, written [y, a, b] (lines 84-99 and
\* 144-170): the position that equals month_value is the month; otherwise
\* a number above 12 is the day; otherwise day-first is tried before
\* month-first.  When every strptime of the branch taken fails, dateutil
\* rejects the text as well.
convert_date_slash(cell, month) ==
  LET asMDY == [y |-> cell.y, m |-> cell.a, d |-> cell.b]
      asDMY == [y |-> cell.y, m |-> cell.b, d |-> cell.a]
      okMDY == ValidDate(cell.y, cell.a, cell.b)
      okDMY == ValidDate(cell.y, cell.b, cell.a)
  IN IF cell.a = month /\ okMDY THEN asMDY
     ELSE IF cell.a # month /\ cell.b = month /\ okDMY THEN asDMY
     ELSE IF cell.a > 12 THEN (IF okDMY THEN asDMY ELSE NoDate)
     ELSE IF cell.b > 12 THEN (IF okMDY THEN asMDY ELSE NoDate)
     ELSE IF okDMY THEN asDMY
     ELSE IF okMDY THEN asMDY
     ELSE NoDate

convert_date_MonthFirst(cell, month) ==
  IF cell = NaNDate THEN NoDate
  ELSE IF ValidDate(cell.y, cell.a, cell.b)
    THEN [y |-> cell.y, m |-> cell.a, d |-> cell.b]
  ELSE IF ValidDate(cell.y, cell.b, cell.a)
    THEN [y |-> cell.y, m |-> cell.b, d |-> cell.a]
  ELSE NoDate

\* convert_date for a missing cell and for a text YYYY-A-B: the position
\* that equals month_value is the month; otherwise a number above 12 is
\* the day; otherwise month-first is tried before day-first.  When every
\* strptime of the branch taken fails, dateutil rejects the text as well.
convert_date(cell, month) ==
  IF cell = NaNDate THEN NoDate
  ELSE
    LET asYMD == [y |-> cell.y, m |-> cell.a, d |-> cell.b]
        asYDM == [y |-> cell.y, m |-> cell.b, d |-> cell.a]
        okYMD == ValidDate(cell.y, cell.a, cell.b)
        okYDM == ValidDate(cell.y, cell.b, cell.a)
    IN IF cell.a = month /\ okYMD THEN asYMD
       ELSE IF cell.a # month /\ cell.b = month /\ okYDM THEN asYDM
       ELSE IF cell.a > 12 THEN (IF okYDM THEN asYDM ELSE NoDate)
       ELSE IF cell.b > 12 THEN (IF okYMD THEN asYMD ELSE NoDate)
       ELSE IF okYMD THEN asYMD
       ELSE IF okYDM THEN asYDM
       ELSE NoDate

\* normalize_columns on one cell of an existing column: astype(str) turns
\* a missing cell into the text 'nan', which fillna('') then leaves alone
AsTypeStr(cell) == IF cell = NaN THEN <<"n", "a", "n">> ELSE cell

\* a row of the batch file as the payment run reads it
PayRow(name, credit, date, status, payment_id) ==
  ("CUSTOMER_NAME" :> name) @@ ("Credit" :> credit)
    @@ ("Posting date" :> date) @@ ("STATUS" :> status)
    @@ ("payment_ID" :> payment_id)

Ten == <<"1", "0">>
March15 == [y |-> 2025, a |-> 3, b |-> 15]

PayRowPool ==
  { PayRow(XA, Ten, March15, NaN, NaN),
    PayRow(NaN, Ten, March15, NaN, NaN),
    PayRow(XA, <<"a", "b">>, March15, NaN, NaN),
    PayRow(XA, <<"1", ",", "0">>, NaNDate, NaN, NaN),
    PayRow(XA, Ten, March15, Transferred, <<"7">>) }

PayBatches == UNION { [1..n -> PayRowPool] : n \in 1..MaxRows }

ConfigMonths == {3}

\* the state a payment run starts from
InitPay ==
  /\ local_db = [exists |-> TRUE, rows |-> AliasRows]
  /\ bc_cache = [exists |-> TRUE, rows |-> DirectoryRows]
  /\ openai_api_key = FALSE
  /\ processed_file \in PayBatches
  /\ batch0 = processed_file
  /\ customer_df = <<>>
  /\ bc_df = [loaded |-> FALSE, rows |-> <<>>]
  /\ input_df = <<>>
  /\ ai_matcher = FALSE
  /\ pc = "off"
  /\ index = 0
  /\ stage1_result = JsonNull
  /\ top_matches = <<>>
  /\ ai_analysis_log = <<>>
  /\ ai_log_file = <<>>
  /\ calls = <<>>
  /\ month_value \in ConfigMonths
  /\ pay_df = <<>>
  /\ pay_pc = "start"
  /\ pay_i = 0
  /\ runs = 0
  /\ output_xlsx = [exists |-> FALSE, rows |-> <<>>]
  /\ bc_ledger = <<>>
  /\ lookups = <<>>
  /\ FnIdle

\* read_csv_file and the first lines of process: STATUS and payment_ID
\* become text, Credit is cleaned, FormattedDate is derived, and REMARKS
\* is created empty when the file has no such column
ReadCsvFile ==
  /\ pay_pc \in {"start", "done"}
  /\ runs < MaxRuns
  /\ runs' = runs + 1
  /\ pay_df' =
       [i \in 1..Len(processed_file) |->
          LET row == processed_file[i]
          IN [c \in DOMAIN row \cup {"FormattedDate", "REMARKS"} |->
                CASE c = "STATUS" -> AsTypeStr(row[c])
                  [] c = "payment_ID" -> AsTypeStr(row[c])
                  [] c = "Credit" -> clean_numeric(row[c])
                  [] c = "FormattedDate" ->
                       convert_date(row["Posting date"], month_value)
                  [] c = "REMARKS" ->
                       IF c \in DOMAIN row THEN row[c] ELSE ""
                  [] OTHER -> row[c]]]
  /\ pay_i' = 1
  /\ pay_pc' = "row"
  /\ UNCHANGED <<month_value, output_xlsx, bc_ledger, lookups>>
  /\ UNCHANGED <<recon_vars, fn_vars>>

\* str(payment_id) of the n-th payment Business Central creates
PaymentId(n) == <<"p">> \o [k \in 1..n |-> "i"]

StorePaymentResult_AlwaysTransferred(df, i, payment_id) ==
  [df EXCEPT ![i]["STATUS"] = Transferred,
             ![i]["payment_ID"] = IF payment_id = NaN THEN @ ELSE payment_id,
             ![i]["REMARKS"] = ""]
\* lines 151-160 of FinanceWorkflow.process: what the loop stores in row i
\* once create_customer_journal_line has returned payment_id (NaN: no id)
StorePaymentResult(df, i, payment_id) ==
  IF payment_id # NaN
    THEN [df EXCEPT ![i]["STATUS"] = Transferred,
                    ![i]["payment_ID"] = payment_id,
                    ![i]["REMARKS"] = ""]
  ELSE [df EXCEPT ![i]["REMARKS"] = "Payment creation failed"]

\* one iteration of the loop of FinanceWorkflow.process (lines 78-161).
\* found: get_customer_info returned a customer; created:
\* create_customer_journal_line returned a payment id.  Both calls turn
\* their own failures into None.
ProcessRow ==
  /\ pay_pc = "row"
  /\ \E found \in BOOLEAN, created \in BOOLEAN :
       LET row == pay_df[pay_i]
           name == row["CUSTOMER_NAME"]
           Remark(reason) == [pay_df EXCEPT ![pay_i]["REMARKS"] = reason]
       IN IF row["STATUS"] = Transferred
          THEN UNCHANGED <<pay_df, bc_ledger, lookups>>
          ELSE IF name = NaN \/ Strip(name) = <<>>
          THEN /\ pay_df' = Remark("Missing customer name")
               /\ UNCHANGED <<bc_ledger, lookups>>
          ELSE /\ lookups' = Append(lookups, [row |-> pay_i, run |-> runs])
               /\ IF ~found
                  THEN /\ pay_df' = Remark("Customer not found")
                       /\ UNCHANGED bc_ledger
                  ELSE IF ~FloatParses(row["Credit"])
                  THEN /\ pay_df' = Remark("Invalid Credit Amount")
                       /\ UNCHANGED bc_ledger
                  ELSE IF row["FormattedDate"] = NoDate
                  THEN /\ pay_df' = Remark("Missing formatted date")
                       /\ UNCHANGED bc_ledger
                  ELSE IF created
                  THEN /\ bc_ledger' = Append(bc_ledger,
                                              [row |-> pay_i, run |-> runs])
                       /\ pay_df' = StorePaymentResult(
                            pay_df, pay_i, PaymentId(Len(bc_ledger) + 1))
                  ELSE /\ pay_df' = StorePaymentResult(pay_df, pay_i, NaN)
                       /\ UNCHANGED bc_ledger
  /\ pay_i' = pay_i + 1
  /\ pay_pc' = IF pay_i = Len(pay_df) THEN "save" ELSE "row"
  /\ UNCHANGED <<month_value, runs, output_xlsx>>
  /\ UNCHANGED <<recon_vars, fn_vars>>

\* save_updated_csv with save_excel: the batch in memory is written to
\* data/output/<batch>_updated.xlsx; the batch file itself is not written
SaveUpdatedCsv ==
  /\ pay_pc = "save"
  /\ output_xlsx' = [exists |-> TRUE, rows |-> pay_df]
  /\ pay_pc' = "done"
  /\ UNCHANGED <<month_value, pay_df, pay_i, runs, bc_ledger, lookups>>
  /\ UNCHANGED <<recon_vars, fn_vars>>

NextPay ==
  \/ ReadCsvFile
  \/ ProcessRow
  \/ SaveUpdatedCsv

SpecPay == InitPay /\ [][NextPay]_vars

(***************************************************************************)
(* Properties of the reconciliation run and of the payment runs            *)
(***************************************************************************)

\* C1 as the specification states it: the AI stage overwrites a row's
\* CUSTOMER_NAME exactly when Stage 2 reports update_customer with a
\* confidence of at least 90, and a confidence in [0, 90) leaves the name
\* as it was.
C1_OverwriteIffConfident ==
  \A k \in DOMAIN ai_analysis_log :
    LET e == ai_analysis_log[k]
        s2 == e.analysis.stage2
        wrote == \E w \in DOMAIN calls[e.row].writes :
                   calls[e.row].writes[w].by = "ai"
    IN e.analysis.final_decision
         \in {"updated_customer", "insufficient_confidence"}
       => /\ wrote <=> /\ s2.recommendation = "update_customer"
                       /\ s2.confidence_score.v >= 90
          /\ s2.confidence_score.v \in 0..89
             => input_df[e.row]["CUSTOMER_NAME"] = batch0[e.row]["CUSTOMER_NAME"]

\* C1 amended: the AI stage overwrites a row's CUSTOMER_NAME in the batch
\* in memory exactly when Stage 2 reports update_customer, a confidence of
\* at least 90 and a non-empty selected customer name that differs from
\* the row's normalized current name; a row Stage 2 did not report on is
\* not overwritten by the AI stage, and a confidence in [0, 90) leaves the
\* name as it was.
C1_OverwriteIffConfidentAndNewName ==
  /\ \A i \in DOMAIN calls :
       (\E w \in DOMAIN calls[i].writes : calls[i].writes[w].by = "ai")
       => \E k \in DOMAIN ai_analysis_log :
            /\ ai_analysis_log[k].row = i
            /\ ai_analysis_log[k].analysis.final_decision = "updated_customer"
  /\ \A k \in DOMAIN ai_analysis_log :
       LET e == ai_analysis_log[k]
           s2 == e.analysis.stage2
           wrote == \E w \in DOMAIN calls[e.row].writes :
                      calls[e.row].writes[w].by = "ai"
       IN e.analysis.final_decision
            \in {"updated_customer", "insufficient_confidence"}
          => /\ wrote <=> /\ s2.recommendation = "update_customer"
                          /\ s2.confidence_score.v >= 90
                          /\ "selected_match" \in DOMAIN s2
                          /\ s2.selected_match # JsonNull
                          /\ "customer_name" \in DOMAIN s2.selected_match
                          /\ s2.selected_match.customer_name # <<>>
                          /\ s2.selected_match.customer_name
                               # normalize_customer_name(
                                   batch0[e.row]["CUSTOMER_NAME"])
             /\ wrote => input_df[e.row]["CUSTOMER_NAME"]
                           = s2.selected_match.customer_name
             /\ s2.confidence_score.v \in 0..89
                => input_df[e.row]["CUSTOMER_NAME"]
                     = batch0[e.row]["CUSTOMER_NAME"]

\* a run has ended in which Stage 2 made the AI stage overwrite a name and,
\* on another reply, declined with confidence 89
C1_Overwritten ==
  /\ pc = "returned_true"
  /\ \E k \in DOMAIN ai_analysis_log :
       LET e == ai_analysis_log[k]
       IN /\ e.analysis.final_decision = "updated_customer"
          /\ e.analysis.stage2.confidence_score.v >= 90
          /\ calls[e.row].decision = "ai_match"
          /\ processed_file[e.row]["CUSTOMER_NAME"]
               = e.analysis.stage2.selected_match.customer_name
          /\ processed_file[e.row]["CUSTOMER_NAME"]
               # batch0[e.row]["CUSTOMER_NAME"]

\* C34: a name the AI stage writes to a row's CUSTOMER_NAME is the
\* CUSTOMER_NAME of one of the directory candidates that were sent to
\* Stage 2 for that row.
C34_WrittenNameIsCandidate ==
  [][ pc = "stage2" /\ index \in DOMAIN calls
        /\ Len(calls'[index].writes) > Len(calls[index].writes)
      => LET write == calls'[index].writes[Len(calls'[index].writes)]
         IN  /\ write.by = "ai"
             /\ input_df'[index]["CUSTOMER_NAME"] = write.value
             /\ \E k \in DOMAIN top_matches :
                  top_matches[k].row["CUSTOMER_NAME"] = write.value ]_vars

\* C2: a row whose STATUS is Transferred when the run starts is skipped by
\* reconciliation: no registry and no AI stage is consulted for it and
\* every field of the row keeps its value, in memory and in the batch file.
C2_TransferredRowsSkipped ==
  \A i \in DOMAIN batch0 :
    batch0[i]["STATUS"] = Transferred
    => /\ ~calls[i].local /\ ~calls[i].bc /\ ~calls[i].ai
       /\ calls[i].writes = <<>>
       /\ i \in DOMAIN input_df => input_df[i] = batch0[i]
       /\ processed_file[i] = batch0[i]

\* C3: once a payment run has created the payment of a row and marked it
\* Transferred, no later run over the same batch looks the row's customer
\* up or creates a payment for it; at most one payment exists per row.
C3_AtMostOnePaymentPerRow ==
  /\ \A k \in DOMAIN bc_ledger :
       \A j \in DOMAIN lookups :
         lookups[j].row = bc_ledger[k].row => lookups[j].run <= bc_ledger[k].run
  /\ \A k1, k2 \in DOMAIN bc_ledger :
       bc_ledger[k1].row = bc_ledger[k2].row => k1 = k2

\* C28 as the specification states it: once a payment run has loaded the
\* batch, every row has the columns STATUS, payment_ID and REMARKS, a cell
\* of them that the file left empty holds the empty text, and STATUS is
\* the empty text or Transferred for the rest of the run.
C28_StatusEmptyOrTransferred ==
  pay_pc \in {"row", "save", "done"}
  => \A i \in DOMAIN pay_df :
       /\ {"STATUS", "payment_ID", "REMARKS"} \subseteq DOMAIN pay_df[i]
       /\ pay_df[i]["STATUS"] \in {<<>>, Transferred}
       /\ ( processed_file[i]["payment_ID"] = NaN
            /\ pay_df[i]["STATUS"] # Transferred )
          => pay_df[i]["payment_ID"] = <<>>

\* C35: a step of a payment run sets a row's STATUS to Transferred only when
\* the payment-creation call of that step returned a payment id (the ledger
\* gained the payment of that row), and the same step stores that id in the
\* row's payment_ID; a row processed without an id being returned keeps its
\* STATUS and payment_ID and carries a failure reason in REMARKS.
C35_TransferredOnlyWithPaymentId ==
  [][ pay_pc = "row"
      => LET returned_id == bc_ledger' # bc_ledger
         IN  /\ \A i \in DOMAIN pay_df :
                  pay_df'[i]["STATUS"] # pay_df[i]["STATUS"]
                  => /\ pay_df'[i]["STATUS"] = Transferred
                     /\ i = pay_i
                     /\ returned_id
                     /\ bc_ledger' =
                          Append(bc_ledger, [row |-> i, run |-> runs])
                     /\ pay_df'[i]["payment_ID"] = PaymentId(Len(bc_ledger'))
             /\ ~returned_id
                => /\ \A i \in DOMAIN pay_df :
                        /\ pay_df'[i]["STATUS"] = pay_df[i]["STATUS"]
                        /\ pay_df'[i]["payment_ID"] = pay_df[i]["payment_ID"]
                   /\ pay_df[pay_i]["STATUS"] # Transferred
                      => pay_df'[pay_i]["REMARKS"]
                           \in {"Missing customer name", "Customer not found",
                                "Invalid Credit Amount",
                                "Missing formatted date",
                                "Payment creation failed"} ]_vars

\* a run in which one row was transferred with the id of its payment and
\* another row's payment call returned no id
C35_OneTransferredOneFailed ==
  /\ pay_pc = "save"
  /\ runs = 1
  /\ Len(pay_df) >= 2
  /\ bc_ledger = << [row |-> 1, run |-> 1] >>
  /\ pay_df[1]["STATUS"] = Transferred
  /\ pay_df[1]["payment_ID"] = PaymentId(1)
  /\ pay_df[2]["REMARKS"] = "Payment creation failed"
  /\ pay_df[2]["STATUS"] # Transferred

\* C4: a row whose name clears the alias-table threshold against an alias
\* row and also clears the directory threshold against a directory row
\* gets the canonical name of an alias row it clears, and the directory is
\* not consulted for the row.
C4_AliasTablePrecedes ==
  \A i \in DOMAIN input_df :
    LET name == normalize_customer_name(batch0[i]["CUSTOMER_NAME"])
        Clears(df, r, cols, pct) ==
          \E c \in DOMAIN cols :
            /\ df[r][cols[c]] # NaN
            /\ RatioGEPct(similarity(name,
                 normalize_customer_name(df[r][cols[c]])), pct)
        alias == { r \in DOMAIN customer_df :
                     Clears(customer_df, r, local_db_columns, 95) }
        directory == { r \in DOMAIN bc_df.rows :
                         Clears(bc_df.rows, r, bc_cache_columns, 75) }
    IN (name # <<>> /\ alias # {} /\ directory # {}
        /\ calls[i].decision # "none")
       => /\ ~calls[i].bc
          /\ Len(calls[i].writes) = 1
          /\ calls[i].writes[1].by = "local"
          /\ \E r \in alias :
               input_df[i]["CUSTOMER_NAME"]
                 = normalize_customer_name(customer_df[r]["CUSTOMER NAME"])

\* a row that clears both thresholds has been decided by the alias table
C4_BothRegistriesClear ==
  \E i \in DOMAIN input_df :
    LET name == normalize_customer_name(batch0[i]["CUSTOMER_NAME"])
    IN /\ bc_df.loaded
       /\ RatioGEPct(similarity(name, normalize_customer_name(
            customer_df[1]["SPECIAL NAME BANK IN"])), 95)
       /\ RatioGEPct(similarity(name, normalize_customer_name(
            bc_df.rows[1]["CUSTOMER_NAME"])), 75)
       /\ calls[i].decision = "local_match"
       /\ input_df[i]["CUSTOMER_NAME"] = XA

\* C5: no failure of the AI stage on a row raises an exception out of the
\* row being processed.
C5_AIFailureStaysInRow ==
  pc # "raised"

\* C6: a reply of Stage 1 or Stage 2 that is malformed, unparsable or
\* thrown is treated as no_match: the AI stage goes no further for the
\* row, the row ends unmatched and its CUSTOMER_NAME is not written.
C6_MalformedReplyIsNoMatch ==
  \A i \in DOMAIN calls :
    calls[i].malformed
    => /\ calls[i].writes = <<>>
       /\ calls[i].decision = "no_match"
       /\ input_df[i]["CUSTOMER_NAME"] = batch0[i]["CUSTOMER_NAME"]

\* C7: the AI stage is invoked for a row only after both registries were
\* consulted without an accepted match and the row has a non-empty
\* description; an unmatched row with no description ends unmatched with
\* its name unchanged and without the AI stage.
C7_AIOnlyForUnmatchedWithDescription ==
  \A i \in DOMAIN input_df :
    LET row == batch0[i]
        name == normalize_customer_name(row["CUSTOMER_NAME"])
        Clears(df, cols, pct) ==
          \E r \in DOMAIN df : \E c \in DOMAIN cols :
            /\ df[r][cols[c]] # NaN
            /\ RatioGEPct(similarity(name,
                 normalize_customer_name(df[r][cols[c]])), pct)
        described ==
          \E c \in DOMAIN description_columns :
            /\ description_columns[c] \in DOMAIN row
            /\ row[description_columns[c]] # NaN
            /\ Strip(row[description_columns[c]]) # <<>>
        unmatched == /\ name # <<>>
                     /\ ~Clears(customer_df, local_db_columns, 95)
                     /\ ~Clears(bc_df.rows, bc_cache_columns, 75)
    IN /\ calls[i].ai
          => /\ calls[i].local /\ calls[i].bc
             /\ unmatched
             /\ described
       /\ (unmatched /\ ~described /\ calls[i].decision # "none")
          => /\ ~calls[i].ai
             /\ calls[i].stage1 = "not_called"
             /\ calls[i].decision = "no_match"
             /\ input_df[i]["CUSTOMER_NAME"] = row["CUSTOMER_NAME"]

\* with the AI fallback switched on, one unmatched row without a
\* description has ended unmatched and another row has reached the AI stage
C7_UndescribedRowEnded ==
  /\ ai_matcher
  /\ \E i, j \in DOMAIN input_df :
       /\ batch0[i]["DESCRIPTION"] = NaN
       /\ batch0[i]["Transaction Description"] = Blank
       /\ calls[i].bc
       /\ calls[i].decision = "no_match"
       /\ calls[j].ai

\* C8: when Stage 1 returns keep_current the AI stage ends for the row: no
\* candidate search, no Stage 2 call, CUSTOMER_NAME unchanged.
C8_KeepCurrentEndsAIStage ==
  \A i \in DOMAIN calls :
    calls[i].stage1 = "keep_current"
    => /\ ~calls[i].search
       /\ ~calls[i].stage2
       /\ calls[i].writes = <<>>
       /\ calls[i].decision = "no_match"
       /\ input_df[i]["CUSTOMER_NAME"] = batch0[i]["CUSTOMER_NAME"]

\* Stage 1 itself answered keep_current for a row and the run was saved
C8_KeptCurrent ==
  /\ pc = "returned_true"
  /\ \E k \in DOMAIN ai_analysis_log :
       /\ ai_analysis_log[k].analysis.final_decision = "kept_current"
       /\ ai_analysis_log[k].analysis.stage1.analysis = "a"
       /\ calls[ai_analysis_log[k].row].stage1 = "keep_current"

\* C9: a row whose handling fails does not stop the batch: once the run is
\* over, every row of the batch has been handled to a decision.
C9_RowFailureDoesNotStopBatch ==
  pc \in {"returned_true", "raised"}
  => \A i \in DOMAIN calls : calls[i].decision # "none"

\* C10: within one run a row's CUSTOMER_NAME is written at most once, and
\* what is written is one name of one stage: the canonical name of an
\* alias row, the name of a directory row, or the name Stage 2 selected.
C10_OneWritePerRow ==
  \A i \in DOMAIN input_df :
    LET writes == calls[i].writes
    IN /\ Len(writes) <= 1
       /\ writes = <<>>
          => input_df[i]["CUSTOMER_NAME"] = batch0[i]["CUSTOMER_NAME"]
       /\ writes # <<>>
          => /\ input_df[i]["CUSTOMER_NAME"] = writes[1].value
             /\ calls[i].decision
                  = CASE writes[1].by = "local" -> "local_match"
                      [] writes[1].by = "bc" -> "bc_match"
                      [] OTHER -> "ai_match"
             /\ CASE writes[1].by = "local" ->
                       \E r \in DOMAIN customer_df :
                         writes[1].value = normalize_customer_name(
                                             customer_df[r]["CUSTOMER NAME"])
                  [] writes[1].by = "bc" ->
                       \E r \in DOMAIN bc_df.rows :
                         writes[1].value = normalize_customer_name(
                                             bc_df.rows[r]["CUSTOMER_NAME"])
                  [] OTHER ->
                       \E k \in DOMAIN ai_analysis_log :
                         /\ ai_analysis_log[k].row = i
                         /\ writes[1].value = ai_analysis_log[k].analysis
                              .stage2.selected_match.customer_name

\* a saved run in which the directory wrote one row's name and the AI
\* stage another's
C10_DirectoryAndAIWrote ==
  /\ pc = "returned_true"
  /\ \E i, j \in DOMAIN input_df :
       /\ Len(calls[i].writes) = 1 /\ calls[i].writes[1].by = "bc"
       /\ Len(calls[j].writes) = 1 /\ calls[j].writes[1].by = "ai"

(***************************************************************************)
(* Single calls of the registry search                                     *)
(***************************************************************************)

\* the reconciliation run is not part of a single call
ReconIdle ==
  /\ local_db = [exists |-> FALSE, rows |-> <<>>]
  /\ bc_cache = [exists |-> FALSE, rows |-> <<>>]
  /\ openai_api_key = FALSE
  /\ processed_file = <<>>
  /\ batch0 = <<>>
  /\ customer_df = <<>>
  /\ bc_df = [loaded |-> FALSE, rows |-> <<>>]
  /\ input_df = <<>>
  /\ ai_matcher = FALSE
  /\ pc = "off"
  /\ index = 0
  /\ stage1_result = JsonNull
  /\ top_matches = <<>>
  /\ ai_analysis_log = <<>>
  /\ ai_log_file = <<>>
  /\ calls = <<>>

\* the normalized names a search is called with
SearchNames ==
  {AC, ACE, normalize_customer_name(AceBlank), MY, YY, XaLower, ACEX, BB}

\* similarity_threshold, in percent
SearchThresholds == {0, 75, 95, 100}

\* a table without one of its columns
DropColumn(df, col) == [r \in DOMAIN df |-> Without(df[r], col)]

\* the tables a search is called on, each with its configured columns
SearchRegistries ==
  { [df |-> AliasRows, name_columns |-> local_db_columns],
    [df |-> DirectoryRows, name_columns |-> bc_cache_columns],
    [df |-> <<DirectoryRows[3], DirectoryRows[1]>>,
     name_columns |-> bc_cache_columns],
    [df |-> <<>>, name_columns |-> bc_cache_columns],
    [df |-> DropColumn(DirectoryRows, "CUSTOMER_NAME"),
     name_columns |-> bc_cache_columns],
    [df |-> DropColumn(AliasRows, "SPECIAL NAME BANK IN"),
     name_columns |-> local_db_columns] }

InitSearch ==
  /\ ReconIdle
  /\ PayIdle
  /\ fn_pc = "find_best_match_in_dataframe"
  /\ \E input_name \in SearchNames, registry \in SearchRegistries,
        threshold_pct \in SearchThresholds :
       fn_arg = [input_name |-> input_name, df |-> registry.df,
                 name_columns |-> registry.name_columns,
                 similarity_threshold |-> threshold_pct]
  /\ fn_out = <<>>

\* one call of find_best_match_in_dataframe
FindBestMatch ==
  /\ fn_pc = "find_best_match_in_dataframe"
  /\ fn_out' = find_best_match_in_dataframe(
                 fn_arg.input_name, fn_arg.df, fn_arg.name_columns,
                 fn_arg.similarity_threshold)
  /\ fn_pc' = "returned"
  /\ UNCHANGED fn_arg
  /\ UNCHANGED <<recon_vars, pay_vars>>

NextSearch ==
  \/ FindBestMatch

SpecSearch == InitSearch /\ [][NextSearch]_vars

\* C11 as the specification states it: the search reports a match exactly
\* when some configured column value of some row reaches the threshold,
\* and the entry it returns attains the maximum similarity of the table.
C11_MatchIffMaxReachesThreshold ==
  fn_pc = "returned"
  => LET df == fn_arg.df
         cols == fn_arg.name_columns
         Cells == { rc \in (DOMAIN df) \X (DOMAIN cols) :
                      /\ cols[rc[2]] \in DOMAIN df[rc[1]]
                      /\ df[rc[1]][cols[rc[2]]] # NaN }
         Sim(rc) == similarity(fn_arg.input_name,
                      normalize_customer_name(df[rc[1]][cols[rc[2]]]))
     IN /\ fn_out.best_match # 0
           <=> \E rc \in Cells :
                 RatioGEPct(Sim(rc), fn_arg.similarity_threshold)
        /\ fn_out.best_match # 0
           => \E rc \in Cells :
                /\ rc[1] = fn_out.best_match
                /\ cols[rc[2]] = fn_out.best_match_type
                /\ Sim(rc) = fn_out.best_similarity
                /\ \A other \in Cells : ~RatioGT(Sim(other), Sim(rc))

\* C11 amended: for a threshold above 0, the search reports a match
\* exactly when some configured column value of some row reaches the
\* threshold, and the entry it returns attains the maximum similarity of
\* the table.
C11_MatchIffMaxReachesPositiveThreshold ==
  (fn_pc = "returned" /\ fn_arg.similarity_threshold > 0)
  => LET df == fn_arg.df
         cols == fn_arg.name_columns
         Cells == { rc \in (DOMAIN df) \X (DOMAIN cols) :
                      /\ cols[rc[2]] \in DOMAIN df[rc[1]]
                      /\ df[rc[1]][cols[rc[2]]] # NaN }
         Sim(rc) == similarity(fn_arg.input_name,
                      normalize_customer_name(df[rc[1]][cols[rc[2]]]))
     IN /\ fn_out.best_match # 0
           <=> \E rc \in Cells :
                 RatioGEPct(Sim(rc), fn_arg.similarity_threshold)
        /\ fn_out.best_match # 0
           => \E rc \in Cells :
                /\ rc[1] = fn_out.best_match
                /\ cols[rc[2]] = fn_out.best_match_type
                /\ Sim(rc) = fn_out.best_similarity
                /\ \A other \in Cells : ~RatioGT(Sim(other), Sim(rc))

\* a search returned the third row of the directory through its contact
\* column although the first row had cleared the threshold before it
C11_LaterRowIsBest ==
  /\ fn_pc = "returned"
  /\ fn_arg.df = DirectoryRows
  /\ fn_arg.similarity_threshold = 75
  /\ RatioGEPct(similarity(fn_arg.input_name, ACE), 75)
  /\ fn_out.best_match = 3
  /\ fn_out.best_match_type = "CONTACT"

\* C12: a row accepted against an alias-table row, through the alias
\* column or the canonical column, gets that row's canonical customer
\* name; a row accepted against a directory row, through the name or the
\* contact column, gets that row's customer name.
C12_CanonicalNameWritten ==
  \A i \in DOMAIN input_df :
    LET name == normalize_customer_name(batch0[i]["CUSTOMER_NAME"])
        Sim(df, r, col) ==
          IF df[r][col] = NaN THEN ZeroRatio
          ELSE similarity(name, normalize_customer_name(df[r][col]))
        BestAt(df, r, cols, pct) ==
          \E c \in DOMAIN cols :
            /\ RatioGEPct(Sim(df, r, cols[c]), pct)
            /\ \A r2 \in DOMAIN df : \A c2 \in DOMAIN cols :
                 ~RatioGT(Sim(df, r2, cols[c2]), Sim(df, r, cols[c]))
    IN /\ calls[i].decision = "local_match"
          => \E r \in DOMAIN customer_df :
               /\ BestAt(customer_df, r, local_db_columns, 95)
               /\ input_df[i]["CUSTOMER_NAME"]
                    = normalize_customer_name(customer_df[r]["CUSTOMER NAME"])
       /\ calls[i].decision = "bc_match"
          => \E r \in DOMAIN bc_df.rows :
               /\ BestAt(bc_df.rows, r, bc_cache_columns, 75)
               /\ input_df[i]["CUSTOMER_NAME"]
                    = normalize_customer_name(bc_df.rows[r]["CUSTOMER_NAME"])

\* a saved run in which one row was accepted through the canonical column
\* of the alias table and another through the contact column of the
\* directory
C12_CanonicalAndContactColumn ==
  /\ pc = "returned_true"
  /\ \E i, j \in DOMAIN input_df :
       /\ batch0[i]["CUSTOMER_NAME"] = XaLower
       /\ calls[i].decision = "local_match"
       /\ processed_file[i]["CUSTOMER_NAME"] = XA
       /\ batch0[j]["CUSTOMER_NAME"] = ACEX
       /\ calls[j].decision = "bc_match"
       /\ processed_file[j]["CUSTOMER_NAME"] = BB

\* C13: a reconciliation run changes nothing but the CUSTOMER_NAME of
\* rows for which a stage accepted a match: the registries stay as they
\* were, the batch file keeps its rows and every other cell, and a row
\* without an accepted match keeps its name.
C13_OnlyAcceptedNamesChange ==
  /\ local_db.exists => local_db.rows = AliasRows
  /\ bc_cache.exists => bc_cache.rows = DirectoryRows
  /\ DOMAIN processed_file = DOMAIN batch0
  /\ \A i \in DOMAIN batch0 :
       /\ DOMAIN processed_file[i] = DOMAIN batch0[i]
       /\ \A c \in DOMAIN batch0[i] \ {"CUSTOMER_NAME"} :
            processed_file[i][c] = batch0[i][c]
       /\ calls[i].decision \notin {"local_match", "bc_match", "ai_match"}
          => processed_file[i]["CUSTOMER_NAME"] = batch0[i]["CUSTOMER_NAME"]

\* C14: once the run is over, the analysis log on disk holds, for every
\* row the AI stage was invoked on, an entry with the Stage 1 result and
\* the final decision, with the Stage 2 result when Stage 2 ran, and with
\* the directory candidates when the search found some.
C14_AITraceRetained ==
  pc \in {"returned_true", "raised"}
  => \A i \in DOMAIN calls :
       calls[i].ai
       => \E k \in DOMAIN ai_log_file :
            LET e == ai_log_file[k]
            IN /\ e.row = i
               /\ {"stage1", "final_decision"} \subseteq DOMAIN e.analysis
               /\ e.analysis.stage1.recommended_action = calls[i].stage1
               /\ calls[i].stage2
                  => /\ "stage2" \in DOMAIN e.analysis
                     /\ "recommendation" \in DOMAIN e.analysis.stage2
                     /\ "top_matches" \in DOMAIN e.analysis

\* C15: when the alias table or the directory cache is missing at the
\* start of the run, reconciliation stops for the whole batch: no row is
\* processed and the batch file is left as it was.
C15_MissingRegistryStopsBatch ==
  (pc # "off" /\ (~local_db.exists \/ ~bc_cache.exists))
  => /\ pc \in {"start", "returned_false"}
     /\ \A i \in DOMAIN calls : calls[i] = NoCalls
     /\ processed_file = batch0

\* C16: a registry that lacks one of its configured columns is skipped as
\* a whole: the search reports no match on it rather than matching on
\* the columns that are left.
C16_RegistryWithoutColumnSkipped ==
  fn_pc = "returned"
  => ((\E r \in DOMAIN fn_arg.df : \E c \in DOMAIN fn_arg.name_columns :
         fn_arg.name_columns[c] \notin DOMAIN fn_arg.df[r])
      => fn_out.best_match = 0)

\* C24: raising the threshold of a search never turns no match into a
\* match: when a call reports no match, the same name on the same table
\* finds no match at any higher threshold either.
C24_HigherThresholdNeverMatchesMore ==
  (fn_pc = "returned" /\ fn_out.best_match = 0)
  => \A higher \in SearchThresholds :
       higher > fn_arg.similarity_threshold
       => find_best_match_in_dataframe(
            fn_arg.input_name, fn_arg.df, fn_arg.name_columns, higher)
            .best_match = 0

\* C24 witness: a call reported no match at a threshold that a lower one
\* matches at, and there is a higher threshold still
C24_MatchLostByRaising ==
  /\ fn_pc = "returned"
  /\ fn_out.best_match = 0
  /\ \E lower, higher \in SearchThresholds :
       /\ lower < fn_arg.similarity_threshold
       /\ higher > fn_arg.similarity_threshold
       /\ find_best_match_in_dataframe(
            fn_arg.input_name, fn_arg.df, fn_arg.name_columns, lower)
            .best_match # 0

\* C25: of the entries that are as similar to the name as the entry
\* returned, the returned one comes first in row-then-column order.
C25_FirstOfTiesReturned ==
  (fn_pc = "returned" /\ fn_out.best_match # 0)
  => LET df == fn_arg.df
         cols == fn_arg.name_columns
         returned == CHOOSE c \in DOMAIN cols :
                       cols[c] = fn_out.best_match_type
         Sim(r, c) == similarity(fn_arg.input_name,
                                 normalize_customer_name(df[r][cols[c]]))
     IN \A r \in DOMAIN df : \A c \in DOMAIN cols :
          (/\ cols[c] \in DOMAIN df[r]
           /\ normalize_customer_name(df[r][cols[c]]) # <<>>
           /\ ~RatioGT(Sim(r, c), fn_out.best_similarity)
           /\ ~RatioGT(fn_out.best_similarity, Sim(r, c)))
          => \/ r > fn_out.best_match
             \/ r = fn_out.best_match /\ c >= returned

\* C25 witness: two entries of different rows are equally similar to the
\* name, no entry is more similar, and the search returned the earlier one
C25_TieOfTwoRows ==
  /\ fn_pc = "returned"
  /\ fn_out.best_match # 0
  /\ \E r \in DOMAIN fn_arg.df : \E c \in DOMAIN fn_arg.name_columns :
       /\ r > fn_out.best_match
       /\ fn_arg.name_columns[c] \in DOMAIN fn_arg.df[r]
       /\ LET sim == similarity(
                     fn_arg.input_name,
                     normalize_customer_name(fn_arg.df[r][fn_arg.name_columns[c]]))
          IN /\ ~RatioGT(sim, fn_out.best_similarity)
             /\ ~RatioGT(fn_out.best_similarity, sim)

(***************************************************************************)
(* Single calls of the directory search of ai_two_stage_matching           *)
(***************************************************************************)

\* a directory of n customers named A, AA, AAA, ... without contacts: no
\* two of them are equally similar to a name of seven letters A
RECURSIVE LetterDirectory(_)
LetterDirectory(n) ==
  IF n = 0 THEN <<>>
  ELSE Append(LetterDirectory(n - 1),
              [CUSTOMER_NAME |-> [k \in 1..n |-> "A"], CONTACT |-> NaN])

\* the calls: a name of the batch row, the alternatives of Stage 1, and a
\* directory; the directories hold customers that share a name, customers
\* known by their contact alone, and more customers than are sent on
InitTop ==
  /\ ReconIdle
  /\ PayIdle
  /\ fn_pc = "get_top_matches_from_bc"
  /\ \E customer_name \in {ACE, MY, BB, [k \in 1..7 |-> "A"]},
        possible_alternatives \in {<<>>, <<ACE>>, <<BB, ACEX>>, <<ACE, ACE, MX>>},
        rows \in { DirectoryRows,
                   <<>>,
                   << [CUSTOMER_NAME |-> ACE, CONTACT |-> NaN],
                      [CUSTOMER_NAME |-> ACE, CONTACT |-> BB],
                      [CUSTOMER_NAME |-> MX, CONTACT |-> ACEX] >>,
                   << [CUSTOMER_NAME |-> NaN, CONTACT |-> ACE],
                      [CUSTOMER_NAME |-> NaN, CONTACT |-> ACEX],
                      [CUSTOMER_NAME |-> BB, CONTACT |-> NaN] >>,
                   LetterDirectory(TopN + 2) } :
       fn_arg = [customer_name |-> customer_name,
                 possible_alternatives |-> possible_alternatives,
                 bc_df |-> rows]
  /\ fn_out = <<>>

\* ai_two_stage_matching lines 823-834: the names to search for and the
\* directory candidates found for them
TopMatches ==
  /\ fn_pc = "get_top_matches_from_bc"
  /\ fn_out' = get_top_matches_from_bc(
                 Dedupe(<<fn_arg.customer_name>> \o fn_arg.possible_alternatives,
                        {}),
                 fn_arg.bc_df, bc_cache_columns, TopN)
  /\ fn_pc' = "returned"
  /\ UNCHANGED fn_arg
  /\ UNCHANGED <<recon_vars, pay_vars>>

NextTop ==
  \/ TopMatches

SpecTop == InitTop /\ [][NextTop]_vars

\* the highest similarity of a directory row to a searched name, over the
\* name and contact columns that hold a name
RowScore(row) ==
  LET names == <<fn_arg.customer_name>> \o fn_arg.possible_alternatives
      Sims == { similarity(names[n], normalize_customer_name(row[col])) :
                  n \in DOMAIN names,
                  col \in { c \in {"CUSTOMER_NAME", "CONTACT"} :
                              normalize_customer_name(row[c]) # <<>> } }
  IN IF Sims = {} THEN ZeroRatio
     ELSE CHOOSE best \in Sims : \A sim \in Sims : ~RatioGT(sim, best)

\* the directory rows that pass the prefilter
PassingRows ==
  { row \in { fn_arg.bc_df[r] : r \in DOMAIN fn_arg.bc_df } :
      RatioGTPct(RowScore(row), PrefilterPct) }

\* C26 as the specification states it: the candidates sent to Stage 2 are
\* directory rows that pass the prefilter, as many as pass it up to 20,
\* and no row left out is more similar to a searched name than a row sent.
C26_TopRowsSent ==
  fn_pc = "returned"
  => LET Sent == { fn_out[k].row : k \in DOMAIN fn_out }
     IN /\ Sent \subseteq PassingRows
        /\ Cardinality(Sent) = IF Cardinality(PassingRows) < TopN
                               THEN Cardinality(PassingRows) ELSE TopN
        /\ \A out \in PassingRows \ Sent : \A row \in Sent :
             ~RatioGT(RowScore(out), RowScore(row))

\* C26, amended: the candidates sent to Stage 2 are directory rows that
\* pass the prefilter, one for each customer name among them (rows without
\* a customer name count as one name), as many as there are such names up
\* to 20; the row sent for a name is one most similar to a searched name
\* among the rows of that name, and no name left out has a row more
\* similar than a row sent.
C26_TopNamesSent ==
  fn_pc = "returned"
  => LET Sent == { fn_out[k].row : k \in DOMAIN fn_out }
         Names(rows) == { row["CUSTOMER_NAME"] : row \in rows }
     IN /\ Sent \subseteq PassingRows
        /\ Cardinality(Names(Sent)) = Len(fn_out)
        /\ Len(fn_out) = IF Cardinality(Names(PassingRows)) < TopN
                         THEN Cardinality(Names(PassingRows)) ELSE TopN
        /\ \A k \in DOMAIN fn_out :
             /\ ~RatioGT(fn_out[k].similarity_score, RowScore(fn_out[k].row))
             /\ ~RatioGT(RowScore(fn_out[k].row), fn_out[k].similarity_score)
        /\ \A out \in PassingRows : \A row \in Sent :
             \/ /\ out["CUSTOMER_NAME"] = row["CUSTOMER_NAME"]
                /\ ~RatioGT(RowScore(out), RowScore(row))
             \/ /\ out["CUSTOMER_NAME"] \notin Names(Sent)
                /\ ~RatioGT(RowScore(out), RowScore(row))
             \/ /\ out["CUSTOMER_NAME"] \in Names(Sent)
                /\ out["CUSTOMER_NAME"] # row["CUSTOMER_NAME"]

\* C26 witness: more than 20 customer names pass the prefilter and 20 rows
\* were sent on
C26_MoreThanTopNPassed ==
  /\ fn_pc = "returned"
  /\ Cardinality({ row["CUSTOMER_NAME"] : row \in PassingRows }) > TopN
  /\ Len(fn_out) = TopN

(***************************************************************************)
(* The workflow of src/core/workflows.py                                   *)
(***************************************************************************)

\* get_workflow_steps, as execute_workflow names the steps it runs
download_step == "core/download_excel_oauth.py"
mbb_steps == <<"nlp_parser/mbb_txn_parser_nlp.py", "core/create_pymt_mbb.py">>
pbb_steps == <<"nlp_parser/pbb_txn_parser_nlp.py", "core/create_pymt_pbb.py">>
upload_step == "core/upload_to_onedrive.py"

continue_on_error_True == TRUE
\* main calls execute_workflow(continue_on_error=False)
continue_on_error == FALSE

\* a file of downloads/new_rows: whether it exists, its header and its rows
NoFile == [exists |-> FALSE, columns |-> {}, rows |-> <<>>]
CsvFile(columns, rows) == [exists |-> TRUE, columns |-> columns, rows |-> rows]

\* filter_empty_rows line 233: the cell is missing, empty or blank
col_empty(cell) == cell = NaN \/ cell = <<>> \/ Strip(StrOfCell(cell)) = <<>>

\* filter_empty_rows(file_path) with columns_to_check = ["CUSTOMER_NAME"]:
\* the count returned and the file left behind; a file without a header
\* makes pd.read_csv raise, which lines 254-256 turn into the count 0
filter_empty_rows(file) ==
  IF ~file.exists THEN [count |-> 0, file |-> file]
  ELSE IF file.columns = {} THEN [count |-> 0, file |-> file]
  ELSE LET df == read_csv(file.rows)
           empty_mask(row) == col_empty(row["CUSTOMER_NAME"])
           filtered_df == SelectSeq(df, empty_mask)
       IN  IF "CUSTOMER_NAME" \notin file.columns
             THEN [count |-> Len(df), file |-> file]
           ELSE IF Len(filtered_df) > 0
             THEN [count |-> Len(filtered_df),
                   file |-> CsvFile(file.columns, to_csv(filtered_df))]
           ELSE [count |-> 0, file |-> file]

\* execute_workflow line 325: the two names are bound to the output of the
\* download step itself, which unpacks when it has two characters (each of
\* them a true value) and raises ValueError otherwise
UnpackOutput(download_output) ==
  IF Len(download_output) = 2
    THEN [raises |-> FALSE, mbb_has_new_rows |-> download_output[1] # "",
          pbb_has_new_rows |-> download_output[2] # ""]
  ELSE [raises |-> TRUE, mbb_has_new_rows |-> FALSE,
        pbb_has_new_rows |-> FALSE]

\* what the download step printed
DownloadOutputs ==
  { <<>>, <<"1", "\n">>, <<"2", " ", "n", "e", "w", "\n">> }

InitFlow ==
  /\ ReconIdle
  /\ PayIdle
  /\ fn_pc = "download"
  /\ LET named == [CUSTOMER_NAME |-> ACE, DESCRIPTION |-> Inv]
         unnamed == [CUSTOMER_NAME |-> NaN, DESCRIPTION |-> Inv]
         blank == [CUSTOMER_NAME |-> Blank, DESCRIPTION |-> Inv]
         token == [CUSTOMER_NAME |-> NA, DESCRIPTION |-> Inv]
         both == {"CUSTOMER_NAME", "DESCRIPTION"}
         Files == { NoFile,
                    CsvFile({}, <<>>),
                    CsvFile(both, <<>>),
                    CsvFile(both, <<named>>),
                    CsvFile(both, <<unnamed, named>>),
                    CsvFile(both, <<named, blank>>),
                    CsvFile(both, <<token>>),
                    CsvFile({"DESCRIPTION"}, <<[DESCRIPTION |-> Inv]>>) }
     IN  \E mbb_file \in Files, pbb_file \in Files :
           fn_arg = [mbb_file |-> mbb_file, pbb_file |-> pbb_file]
  /\ fn_out = [mbb_file |-> fn_arg.mbb_file, pbb_file |-> fn_arg.pbb_file,
               download_output |-> <<>>, started |-> <<>>,
               steps_to_run |-> <<>>, success |-> TRUE, result |-> "none"]

\* execute_workflow lines 270-322: the download step
DownloadStep ==
  /\ fn_pc = "download"
  /\ \E download_success \in BOOLEAN, stdout \in DownloadOutputs :
       /\ fn_out' = [fn_out EXCEPT
            !.started = Append(@, [step |-> download_step,
                                   ok |-> download_success]),
            !.download_output = stdout,
            !.result = IF download_success THEN @ ELSE "False"]
       /\ fn_pc' = IF download_success THEN "new_rows" ELSE "returned"
  /\ UNCHANGED fn_arg
  /\ UNCHANGED <<recon_vars, pay_vars>>

\* execute_workflow lines 324-379: which banks have rows, the filtering of
\* their files and the steps selected
SelectSteps ==
  /\ fn_pc = "new_rows"
  /\ LET new_rows == UnpackOutput(fn_out.download_output)
         mbb == IF new_rows.mbb_has_new_rows
                  THEN filter_empty_rows(fn_out.mbb_file)
                ELSE [count |-> 0, file |-> fn_out.mbb_file]
         pbb == IF new_rows.pbb_has_new_rows
                  THEN filter_empty_rows(fn_out.pbb_file)
                ELSE [count |-> 0, file |-> fn_out.pbb_file]
         mbb_has_new_rows == new_rows.mbb_has_new_rows /\ mbb.count # 0
         pbb_has_new_rows == new_rows.pbb_has_new_rows /\ pbb.count # 0
         steps == (IF mbb_has_new_rows /\ mbb.count > 0
                     THEN mbb_steps ELSE <<>>)
                  \o (IF pbb_has_new_rows /\ pbb.count > 0
                        THEN pbb_steps ELSE <<>>)
     IN  IF new_rows.raises
           THEN /\ fn_out' = [fn_out EXCEPT !.result = "raised"]
                /\ fn_pc' = "returned"
         ELSE IF ~new_rows.mbb_has_new_rows /\ ~new_rows.pbb_has_new_rows
           THEN /\ fn_out' = [fn_out EXCEPT !.result = "True"]
                /\ fn_pc' = "returned"
         ELSE IF ~mbb_has_new_rows /\ ~pbb_has_new_rows
           THEN /\ fn_out' = [fn_out EXCEPT !.mbb_file = mbb.file,
                                            !.pbb_file = pbb.file,
                                            !.result = "True"]
                /\ fn_pc' = "returned"
         ELSE /\ fn_out' = [fn_out EXCEPT
                   !.mbb_file = mbb.file,
                   !.pbb_file = pbb.file,
                   !.steps_to_run =
                      IF steps # <<>> THEN Append(steps, upload_step)
                      ELSE steps]
              /\ fn_pc' = "steps"
  /\ UNCHANGED fn_arg
  /\ UNCHANGED <<recon_vars, pay_vars>>

\* execute_workflow lines 382-390 and run_script: one turn of the loop
RunStep ==
  /\ fn_pc = "steps"
  /\ fn_out.steps_to_run # <<>>
  /\ \E step_success \in BOOLEAN :
       LET step == Head(fn_out.steps_to_run)
           stops == ~step_success /\ ~continue_on_error
       IN  /\ fn_out' = [fn_out EXCEPT
                !.started = Append(@, [step |-> step, ok |-> step_success]),
                !.success = IF step_success THEN @ ELSE FALSE,
                !.steps_to_run = IF stops THEN <<>> ELSE Tail(@)]
  /\ UNCHANGED <<fn_pc, fn_arg>>
  /\ UNCHANGED <<recon_vars, pay_vars>>

\* execute_workflow line 392
ReturnSuccess ==
  /\ fn_pc = "steps"
  /\ fn_out.steps_to_run = <<>>
  /\ fn_out' = [fn_out EXCEPT
       !.result = IF fn_out.success THEN "True" ELSE "False"]
  /\ fn_pc' = "returned"
  /\ UNCHANGED fn_arg
  /\ UNCHANGED <<recon_vars, pay_vars>>

NextFlow ==
  \/ DownloadStep
  \/ SelectSteps
  \/ RunStep
  \/ ReturnSuccess

SpecFlow == InitFlow /\ [][NextFlow]_vars

\* the place of a step in the order download, MBB parser, MBB payment,
\* PBB parser, PBB payment, upload
StepRank(step) ==
  CHOOSE k \in 1..6 :
    <<download_step, mbb_steps[1], mbb_steps[2], pbb_steps[1], pbb_steps[2],
      upload_step>>[k] = step

C30_ParserRunsIffEmptyNames ==
  LET Ran(step) == \E k \in DOMAIN fn_out.started : fn_out.started[k].step = step
      HasEmptyName(file) ==
        /\ file.exists
        /\ \E i \in DOMAIN file.rows :
             /\ "CUSTOMER_NAME" \in DOMAIN file.rows[i]
             /\ col_empty(read_csv(file.rows)[i]["CUSTOMER_NAME"])
  IN  fn_pc = "returned" /\ fn_out.started[1].ok
      => /\ Ran(mbb_steps[1]) <=> HasEmptyName(fn_out.mbb_file)
         /\ Ran(pbb_steps[1]) <=> HasEmptyName(fn_out.pbb_file)

(***************************************************************************)
(* Single calls of convert_date                                            *)
(***************************************************************************)

\* the largest number written in the two short positions of a date text
MaxDateNumber == 32

\* the calls: the text is YYYY-A-B ("dash") or A/B/YYYY ("slash") with a
\* leap or a common year, or the value is missing, blank, or a text that
\* matches neither pattern and that dateutil rejects ("other"); the month
\* value is a month number
InitDate ==
  /\ ReconIdle
  /\ PayIdle
  /\ fn_pc = "call"
  /\ \E form \in {"dash", "slash", "missing", "blank", "other"},
        y \in {2024, 2025}, a \in 0..MaxDateNumber, b \in 0..MaxDateNumber,
        month \in 1..12 :
       /\ form \in {"missing", "blank", "other"} => y = 2025 /\ a = 0 /\ b = 0
       /\ fn_arg = [form |-> form, y |-> y, a |-> a, b |-> b,
                    month_value |-> month]
  /\ fn_out = <<>>

\* convert_date(date_string, month_value=month): line 58 for a missing or
\* blank value, line 173 for a text dateutil rejects
ConvertDate ==
  /\ fn_pc = "call"
  /\ LET cell == [y |-> fn_arg.y, a |-> fn_arg.a, b |-> fn_arg.b]
     IN  fn_out' =
           CASE fn_arg.form = "dash" -> convert_date(cell, fn_arg.month_value)
             [] fn_arg.form = "slash" ->
                  convert_date_slash(cell, fn_arg.month_value)
             [] fn_arg.form = "missing" ->
                  convert_date(NaNDate, fn_arg.month_value)
             [] OTHER -> NoDate
  /\ fn_pc' = "returned"
  /\ UNCHANGED fn_arg
  /\ UNCHANGED <<recon_vars, pay_vars>>

NextDate == ConvertDate

SpecDate == InitDate /\ [][NextDate]_vars

\* C32: for a month value m and a text YYYY-A-B or A/B/YYYY in which
\* exactly one of A and B equals m, convert_date returns the date of year
\* YYYY whose month is m and whose day is the other number, or the empty
\* text when that is no calendar date; for a missing, blank or unparseable
\* value it returns the empty text.
C32_MonthValueDecidesOrder ==
  LET m == fn_arg.month_value
      other == IF fn_arg.a = m THEN fn_arg.b ELSE fn_arg.a
      leap == fn_arg.y % 4 = 0 /\ (fn_arg.y % 100 # 0 \/ fn_arg.y % 400 = 0)
      days == CASE m \in {4, 6, 9, 11} -> 30
                [] m = 2 -> IF leap THEN 29 ELSE 28
                [] OTHER -> 31
  IN  fn_pc = "returned"
      => IF fn_arg.form \in {"dash", "slash"}
           THEN (fn_arg.a = m) # (fn_arg.b = m)
                => fn_out = IF other \in 1..days
                              THEN [y |-> fn_arg.y, m |-> m, d |-> other]
                            ELSE NoDate
         ELSE fn_out = NoDate

\* the month value has made the third position of 2025-01-07 the month
C32_DayBeforeMonthResolved ==
  /\ fn_pc = "returned"
  /\ fn_arg = [form |-> "dash", y |-> 2025, a |-> 1, b |-> 7, month_value |-> 7]
  /\ fn_out = [y |-> 2025, m |-> 7, d |-> 1]

(***************************************************************************)
(* Single calls of the two filter_empty_rows                               *)
(***************************************************************************)

\* most rows of a file a filter is called on
MaxFileRows == 2

\* col.strip().upper() of filter_utils.filter_empty_rows line 32, over the
\* column names of the model
ColumnKey(col) ==
  IF col \in {"CUSTOMER_NAME", "Customer_Name", " customer_name"}
    THEN "CUSTOMER_NAME"
  ELSE col

utils_col_empty_MissingOnly(cell) == cell = NaN
\* filter_utils.filter_empty_rows lines 42-47: the cell is missing, or its
\* text is blank, nan or None once stripped
utils_col_empty(cell) ==
  \/ cell = NaN
  \/ Strip(StrOfCell(cell)) \in {<<>>, <<"n", "a", "n">>, <<"N", "o", "n", "e">>}

\* filter_empty_rows of src/utils/filter_utils.py: the value returned and
\* the file left behind
utils_filter_empty_rows(file) ==
  IF ~file.exists THEN [result |-> FALSE, file |-> file]
  ELSE IF file.columns = {} THEN [result |-> FALSE, file |-> file]
  ELSE LET df == read_csv(file.rows)
           matching_columns ==
             { col \in file.columns : ColumnKey(col) = "CUSTOMER_NAME" }
           actual_column == CHOOSE col \in matching_columns : TRUE
           Keep(row) == utils_col_empty(row[actual_column])
           df_filtered == SelectSeq(df, Keep)
       IN  IF matching_columns = {} THEN [result |-> FALSE, file |-> file]
           ELSE IF Len(df_filtered) > 0
             THEN [result |-> TRUE,
                   file |-> CsvFile(file.columns, to_csv(df_filtered))]
           ELSE [result |-> FALSE, file |-> file]

\* the calls: a file that is missing, has no header, lacks the name
\* column, spells it differently, or holds rows whose names are missing,
\* blank, an NA token, the text nan behind a blank, or a name
InitFilter ==
  /\ ReconIdle
  /\ PayIdle
  /\ fn_pc = "call"
  /\ LET Named(col, name) ==
           [c \in {col, "DESCRIPTION"} |->
              IF c = "DESCRIPTION" THEN Inv ELSE name]
         Names == {NaN, Blank, NA, <<" ", "n", "a", "n">>, ACE, MX}
         Files ==
           { CsvFile({"CUSTOMER_NAME", "DESCRIPTION"},
                     [i \in 1..n |-> Named("CUSTOMER_NAME", names[i])]) :
               n \in 0..MaxFileRows, names \in [1..MaxFileRows -> Names] }
             \cup { NoFile,
                    CsvFile({}, <<>>),
                    CsvFile({"DESCRIPTION"}, <<[DESCRIPTION |-> Inv]>>),
                    CsvFile({"Customer_Name", "DESCRIPTION"},
                            << Named("Customer_Name", NaN),
                               Named("Customer_Name", ACE) >>) }
     IN  \E file \in Files, module \in {"core.workflows", "utils.filter_utils"} :
           fn_arg = [module |-> module, file |-> file]
  /\ fn_out = <<>>

WorkflowsFilter ==
  /\ fn_pc = "call"
  /\ fn_arg.module = "core.workflows"
  /\ LET r == filter_empty_rows(fn_arg.file)
     IN  fn_out' = [result |-> r.count, file |-> r.file]
  /\ fn_pc' = "returned"
  /\ UNCHANGED fn_arg
  /\ UNCHANGED <<recon_vars, pay_vars>>

UtilsFilter ==
  /\ fn_pc = "call"
  /\ fn_arg.module = "utils.filter_utils"
  /\ fn_out' = utils_filter_empty_rows(fn_arg.file)
  /\ fn_pc' = "returned"
  /\ UNCHANGED fn_arg
  /\ UNCHANGED <<recon_vars, pay_vars>>

NextFilter ==
  \/ WorkflowsFilter
  \/ UtilsFilter

SpecFilter == InitFilter /\ [][NextFilter]_vars

MaxCustomers == 3

\* a lookup that returns None
None == [none |-> TRUE]

\* the entry a lookup settles on, lines 58-64 of business_central.py and
\* lines 165-179 of judah_mbb_create_pymt.py: the second entry when the
\* first is blocked and there is a second, else the first
ChosenCustomer(customers) ==
  IF customers[1].blocked = "All" /\ Len(customers) > 1
    THEN customers[2]
  ELSE customers[1]

\* BusinessCentralClient.get_customer_info: response is what the customers
\* endpoint answered, [ok, customers]
get_customer_info(customer_name, response) ==
  IF customer_name = <<>> THEN None
  ELSE IF ~response.ok THEN None
  ELSE IF response.customers = <<>> THEN None
  ELSE LET customer == ChosenCustomer(response.customers)
       IN  [customerId |-> customer.id,
            customerNumber |-> customer.number,
            customerName |-> customer.displayName,
            blocked |-> customer.blocked = "All"]

\* get_customer_info of judah_mbb_create_pymt.py
judah_get_customer_info(customer_name, response) ==
  IF customer_name = <<>> THEN None
  ELSE IF ~response.ok THEN None
  ELSE IF response.customers = <<>> THEN None
  ELSE LET customer == ChosenCustomer(response.customers)
       IN  [customerId |-> customer.id,
            customerNumber |-> customer.number,
            customerName |-> customer.displayName]

\* the calls: a name, and an answer of up to MaxCustomers entries, each of
\* them blocked or not
InitLookup ==
  /\ ReconIdle
  /\ PayIdle
  /\ fn_pc \in {"BusinessCentralClient.get_customer_info",
                "judah.get_customer_info"}
  /\ \E customer_name \in {<<>>, ACE}, ok \in BOOLEAN, n \in 0..MaxCustomers :
       \E blocked \in [1..n -> {"", "All"}] :
         fn_arg = [customer_name |-> customer_name,
                   response |->
                     [ok |-> ok,
                      customers |->
                        [k \in 1..n |->
                           [id |-> k, number |-> k, displayName |-> ACE,
                            blocked |-> blocked[k]]]]]
  /\ fn_out = <<>>

ClientLookup ==
  /\ fn_pc = "BusinessCentralClient.get_customer_info"
  /\ fn_out' = get_customer_info(fn_arg.customer_name, fn_arg.response)
  /\ fn_pc' = "returned"
  /\ UNCHANGED fn_arg
  /\ UNCHANGED <<recon_vars, pay_vars>>

JudahLookup ==
  /\ fn_pc = "judah.get_customer_info"
  /\ fn_out' = judah_get_customer_info(fn_arg.customer_name, fn_arg.response)
  /\ fn_pc' = "returned"
  /\ UNCHANGED fn_arg
  /\ UNCHANGED <<recon_vars, pay_vars>>

NextLookup ==
  \/ ClientLookup
  \/ JudahLookup

SpecLookup == InitLookup /\ [][NextLookup]_vars

\* C27 as the specification states it: a lookup answered with entries
\* returns an entry; it returns an unblocked entry when there is one, and
\* otherwise a blocked entry that it flags as blocked.
C27_UnblockedPreferredBlockedFlagged ==
  LET customers == fn_arg.response.customers
      Unblocked == { k \in DOMAIN customers : customers[k].blocked # "All" }
  IN  /\ fn_pc = "returned"
      /\ fn_arg.customer_name # <<>>
      /\ fn_arg.response.ok
      /\ customers # <<>>
      => /\ fn_out # None
         /\ Unblocked # {} => fn_out.customerId \in Unblocked
         /\ Unblocked = {} => /\ "blocked" \in DOMAIN fn_out
                              /\ fn_out.blocked

(***************************************************************************)
(* The description parsers.  A description is a text whose only blank      *)
(* character is the space.                                                 *)
(***************************************************************************)

\* pat occurs in s at the 0-based index k
OccursAt(s, pat, k) ==
  /\ k >= 0
  /\ k + Len(pat) <= Len(s)
  /\ SubSeq(s, k + 1, k + Len(pat)) = pat

\* the lowest of a set of indices, -1 when there is none: where str.find
\* finds and where re.search starts to match
Lowest(indices) ==
  IF indices = {} THEN -1
  ELSE CHOOSE k \in indices : \A j \in indices : k <= j

\* s.find(pat)
find(s, pat) == Lowest({ k \in 0..Len(s) : OccursAt(s, pat, k) })

\* s[k:], for 0 <= k
From(s, k) == SubSeq(s, k + 1, Len(s))

\* s[:k], for 0 <= k
UpTo(s, k) == SubSeq(s, 1, IF k < Len(s) THEN k ELSE Len(s))

\* s.split(sep)[1], for a text in which sep occurs
SecondPart(s, sep) ==
  LET rest == From(s, find(s, sep) + Len(sep))
  IN IF find(rest, sep) = -1 THEN rest ELSE UpTo(rest, find(rest, sep))

\* the number of characters of the set cs that s goes on with from index k
RECURSIVE RunLength(_, _, _)
RunLength(s, cs, k) ==
  IF k < Len(s) /\ s[k + 1] \in cs THEN 1 + RunLength(s, cs, k + 1) ELSE 0

\* the index behind the blanks that start at index k
BehindBlanks(s, k) == k + RunLength(s, {" "}, k)

\* s.endswith(suffix)
EndsWith(s, suffix) ==
  /\ Len(suffix) <= Len(s)
  /\ From(s, Len(s) - Len(suffix)) = suffix

UpperLetters == <<"A", "B", "C", "D", "E", "F", "G", "H", "I", "J", "K", "L", "M", "N", "O", "P", "Q", "R", "S", "T", "U", "V", "W", "X", "Y", "Z">>
LowerLetters == <<"a", "b", "c", "d", "e", "f", "g", "h", "i", "j", "k", "l", "m", "n", "o", "p", "q", "r", "s", "t", "u", "v", "w", "x", "y", "z">>

\* str.lower() and str.upper() over the whole alphabet
lower(s) ==
  [k \in DOMAIN s |->
     IF \E n \in DOMAIN UpperLetters : UpperLetters[n] = s[k]
     THEN LowerLetters[CHOOSE n \in DOMAIN UpperLetters : UpperLetters[n] = s[k]]
     ELSE s[k]]

upper(s) ==
  [k \in DOMAIN s |->
     IF \E n \in DOMAIN LowerLetters : LowerLetters[n] = s[k]
     THEN UpperLetters[CHOOSE n \in DOMAIN LowerLetters : LowerLetters[n] = s[k]]
     ELSE s[k]]

\* str.split(): the words of s, in order
RECURSIVE split(_)
split(s) ==
  LET t == Strip(s)
      n == IF find(t, <<" ">>) = -1 THEN Len(t) ELSE find(t, <<" ">>)
  IN IF t = <<>> THEN <<>>
     ELSE <<UpTo(t, n)>> \o split(From(t, n))

\* ' '.join(words)
RECURSIVE join(_)
join(words) ==
  IF words = <<>> THEN <<>>
  ELSE IF Len(words) = 1 THEN words[1]
  ELSE words[1] \o <<" ">> \o join(Tail(words))

\* re.sub(r'PTE\s*LTD', 'PTE LTD', s)
RECURSIVE NormalizePteLtd(_)
NormalizePteLtd(s) ==
  LET At(k) == /\ OccursAt(s, <<"P", "T", "E">>, k)
               /\ OccursAt(s, <<"L", "T", "D">>, BehindBlanks(s, k + 3))
      k == Lowest({ j \in 0..Len(s) : At(j) })
  IN IF k = -1 THEN s
     ELSE UpTo(s, k) \o <<"P", "T", "E", " ", "L", "T", "D">>
            \o NormalizePteLtd(From(s, BehindBlanks(s, k + 3) + 3))

\* the loop over a marker list from marker m on: the lowest index above
\* low that a marker is first found at, starting from desc_start_idx
RECURSIVE MarkerDescStart(_, _, _, _, _)
MarkerDescStart(s, markers, low, m, desc_start_idx) ==
  IF m > Len(markers) THEN desc_start_idx
  ELSE LET idx == find(s, markers[m])
       IN MarkerDescStart(s, markers, low, m + 1,
                          IF idx > low /\ idx < desc_start_idx
                          THEN idx ELSE desc_start_idx)

(***************************************************************************)
(* pbb_txn_parser                                                          *)
(***************************************************************************)

\* the markers extract_transaction_info looks for; process_duitnow_,
\* process_tsfr_fund_ and process_dep_ecp_transaction split the description
\* at the marker followed by a blank
pbb_markers ==
  [duitnow |-> <<"D", "U", "I", "T", "N", "O", "W", " ", "T", "R", "S", "F", " ", "C", "R", " ", "-", " ", "N", "O", ":">>,
   tsfr_fund |-> <<"T", "S", "F", "R", " ", "F", "U", "N", "D", " ", "C", "R", "-", "A", "T", "M", "/", "E", "F", "T", " ", "-", " ", "N", "O", ":">>,
   dep_ecp |-> <<"D", "E", "P", "-", "E", "C", "P", " ", "-", " ", "N", "O", ":">>,
   dep_loc_cheq |-> <<"D", "E", "P", "-", "L", "O", "C", " ", "C", "H", "E", "Q", " ", "-", " ", "N", "O", ":">>,
   dep_hse_cheq |-> <<"D", "E", "P", "-", "H", "S", "E", " ", "C", "H", "E", "Q", " ", "-", " ", "N", "O", ":">>]

CustomindDesign == <<"C", "U", "S", "T", "O", "M", "I", "N", "D", " ", "D", "E", "S", "I", "G", "N">>

\* desc_markers of process_duitnow_transaction, in list order; the first
\* twelve are the desc_markers of process_tsfr_fund_transaction
duitnow_desc_markers ==
  << <<"F", "u", "n", "d", " ", "t", "r", "a", "n", "s", "f", "e", "r">>,
     <<"P", "V", "-">>,
     <<"S", "O">>,
     <<"I", "N", "V">>,
     <<"B", "I", "N", "V", "O", "I", "C", "E">>,
     <<"S", "t", "a", "t", "e", "m", "e", "n", "t">>,
     <<"P", "a", "y", "m", "e", "n", "t", " ", "f", "o", "r">>,
     <<"T", "O", "P", " ", "U", "P">>,
     <<"p", "a", "y", "m">>,
     <<"i", "n", "v", "o", "i", "c", "e">>,
     <<"S", "e", "n", "t">>,
     <<"J", "o", "t", "e", "x">>,
     <<"B", "i", "l", "l">>,
     <<"P", "S">>,
     <<"P", "O">>,
     <<"D", "o", "c">> >>

\* process_duitnow_transaction keeping the blanks around the two parts
process_duitnow_transaction_Untrimmed(txn_desc) ==
  IF find(txn_desc, pbb_markers.duitnow \o <<" ">>) = -1
  THEN [customer_name |-> <<>>, description |-> <<>>]
  ELSE
    LET after_no == SecondPart(txn_desc, pbb_markers.duitnow \o <<" ">>)
        \* re.match(r'^\d+\s+', after_no)
        digits == RunLength(after_no, Digits, 0)
        num_match == IF digits > 0 /\ BehindBlanks(after_no, digits) > digits
                     THEN BehindBlanks(after_no, digits) ELSE 0
        after_number == From(after_no, num_match)
        after_name_idx == find(after_number, CustomindDesign)
                            + Len(CustomindDesign)
        desc_start_idx == MarkerDescStart(after_number, duitnow_desc_markers,
                                          0, 1, Len(after_number))
    IN IF num_match = 0
       THEN [customer_name |-> Strip(after_no), description |-> <<>>]
       ELSE IF find(after_number, CustomindDesign) # -1
       THEN [customer_name |-> CustomindDesign,
             description |-> Strip(From(after_number, after_name_idx))]
       ELSE IF desc_start_idx < Len(after_number)
       THEN [customer_name |-> UpTo(after_number, desc_start_idx),
             description |-> From(after_number, desc_start_idx)]
       ELSE [customer_name |-> Strip(after_number), description |-> <<>>]

process_duitnow_transaction(txn_desc) ==
  IF find(txn_desc, pbb_markers.duitnow \o <<" ">>) = -1
  THEN [customer_name |-> <<>>, description |-> <<>>]
  ELSE
    LET after_no == SecondPart(txn_desc, pbb_markers.duitnow \o <<" ">>)
        \* re.match(r'^\d+\s+', after_no)
        digits == RunLength(after_no, Digits, 0)
        num_match == IF digits > 0 /\ BehindBlanks(after_no, digits) > digits
                     THEN BehindBlanks(after_no, digits) ELSE 0
        after_number == From(after_no, num_match)
        after_name_idx == find(after_number, CustomindDesign)
                            + Len(CustomindDesign)
        desc_start_idx == MarkerDescStart(after_number, duitnow_desc_markers,
                                          0, 1, Len(after_number))
    IN IF num_match = 0
       THEN [customer_name |-> Strip(after_no), description |-> <<>>]
       ELSE IF find(after_number, CustomindDesign) # -1
       THEN [customer_name |-> CustomindDesign,
             description |-> Strip(From(after_number, after_name_idx))]
       ELSE IF desc_start_idx < Len(after_number)
       THEN [customer_name |-> Strip(UpTo(after_number, desc_start_idx)),
             description |-> Strip(From(after_number, desc_start_idx))]
       ELSE [customer_name |-> Strip(after_number), description |-> <<>>]

process_tsfr_fund_transaction(txn_desc) ==
  LET after_no == SecondPart(txn_desc, pbb_markers.tsfr_fund \o <<" ">>)
      \* re.match(r'^\d+\s+XXXXXX\d+\s+', after_no)
      d1 == RunLength(after_no, Digits, 0)
      b1 == BehindBlanks(after_no, d1)
      d2 == RunLength(after_no, Digits, b1 + 6)
      b2 == BehindBlanks(after_no, b1 + 6 + d2)
      acc_match == IF /\ d1 > 0
                      /\ b1 > d1
                      /\ OccursAt(after_no, <<"X", "X", "X", "X", "X", "X">>, b1)
                      /\ d2 > 0
                      /\ b2 > b1 + 6 + d2
                   THEN b2 ELSE 0
      \* the split of after_account, given its words, the index the marker
      \* loop ends with and the index num_match starts at
      Split(after_account, words, by_marker, num_match) ==
        LET by_number == IF num_match # -1 /\ num_match < by_marker
                         THEN num_match ELSE by_marker
            \* after_account.rfind(' ' + words[-1])
            last_word_idx ==
              CHOOSE k \in 0..Len(after_account) :
                /\ OccursAt(after_account, <<" ">> \o words[Len(words)], k)
                /\ \A j \in (k + 1)..Len(after_account) :
                     ~OccursAt(after_account, <<" ">> \o words[Len(words)], j)
            desc_start_idx ==
              IF /\ Len(words) > 1
                 /\ Len(words[Len(words)]) < 5
                 /\ last_word_idx > 0
                 /\ last_word_idx < by_number
              THEN last_word_idx ELSE by_number
        IN IF desc_start_idx < Len(after_account)
           THEN [customer_name |-> Strip(UpTo(after_account, desc_start_idx)),
                 description |-> Strip(From(after_account, desc_start_idx))]
           ELSE [customer_name |-> Strip(after_account), description |-> <<>>]
      AfterAccount(after_account) ==
        Split(after_account,
              split(after_account),
              MarkerDescStart(after_account,
                              SubSeq(duitnow_desc_markers, 1, 12),
                              0, 1, Len(after_account)),
              \* re.search(r'\s+\d{4,}', after_account)
              Lowest({ k \in 0..Len(after_account) :
                         /\ OccursAt(after_account, <<" ">>, k)
                         /\ RunLength(after_account, Digits,
                                      BehindBlanks(after_account, k)) >= 4 }))
  IN IF find(txn_desc, pbb_markers.tsfr_fund \o <<" ">>) = -1
     THEN [customer_name |-> <<>>, description |-> <<>>]
     ELSE IF acc_match = 0
     THEN [customer_name |-> Strip(after_no), description |-> <<>>]
     ELSE AfterAccount(From(after_no, acc_match))

bank_indicators ==
  << <<"C", "I", "M">>,
     <<"H", "L", "B">>,
     <<"M", "B", "B">>,
     <<"C", "I", "M", "B">>,
     <<"R", "H", "B">>,
     <<"P", "B", "B">> >>

\* word.isupper()
isupper(word) ==
  /\ \E k \in DOMAIN word : lower(<<word[k]>>) # <<word[k]>>
  /\ \A k \in DOMAIN word : upper(<<word[k]>>) = <<word[k]>>

process_dep_ecp_transaction(txn_desc) ==
  LET \* [A-Z] and [A-Z0-9\s&.]
      IsUpper(c) == lower(<<c>>) # <<c>>
      IsPayerChar(c) == IsUpper(c) \/ c \in Digits \cup {" ", "&", "."}
      \* the three ways to split after_no, given the index g that
      \* ^\d+\s+IMEPS\d+\s+ ends at, the index group_end the lazy group
      \* ends at, desc_start_idx and the words of after_no
      Split(after_no, g, group_end, desc_start_idx, words, capital_word_idx) ==
        LET group1 == SubSeq(after_no, g + 1, group_end)
            description_start == find(after_no, group1) + Len(group1)
            company_end_idx ==
              Lowest({ k \in (capital_word_idx + 1)..(Len(words) - 1) :
                         \/ ~isupper(words[k + 1])
                         \/ \E m \in DOMAIN bank_indicators :
                              find(words[k + 1], bank_indicators[m]) # -1 })
        IN IF /\ g > 0
              /\ g < Len(after_no)
              /\ IsUpper(after_no[g + 1])
              /\ group_end # -1
           THEN [customer_name |-> Strip(group1),
                 description |-> Strip(From(after_no, description_start))]
           ELSE IF desc_start_idx < Len(after_no) /\ desc_start_idx > 10
           THEN [customer_name |-> Strip(UpTo(after_no, desc_start_idx)),
                 description |-> Strip(From(after_no, desc_start_idx))]
           ELSE IF capital_word_idx < 0
           THEN [customer_name |-> <<>>, description |-> <<>>]
           ELSE IF company_end_idx > 0
           THEN [customer_name |->
                   join(SubSeq(words, capital_word_idx + 1, company_end_idx)),
                 description |->
                   join(SubSeq(words, company_end_idx + 1, Len(words)))]
           ELSE [customer_name |-> words[capital_word_idx + 1],
                 description |->
                   join(SubSeq(words, capital_word_idx + 2, Len(words)))]
      \* the last resort, on the words of after_no (indices from 0)
      ByWords(after_no, g, group_end, desc_start_idx, words) ==
        Split(after_no, g, group_end, desc_start_idx, words,
              Lowest({ k \in 2..(Len(words) - 1) :
                         Len(words[k + 1]) > 2 /\ isupper(words[k + 1]) }))
      \* the bank loop, then re.search(r'\s+\d{4}[\s-]\d{4}', after_no)
      ByIndicator(after_no, g, group_end, by_bank, num_match) ==
        ByWords(after_no, g, group_end,
                IF num_match # -1 /\ num_match < by_bank
                THEN num_match ELSE by_bank,
                split(after_no))
      \* the lazy group ([A-Z][A-Z0-9\s&.]+?) from index g on ends before
      \* the lowest index that blanks and a bank code or digit follow:
      \* (CIM|HLB|MBB|CIMB|RHB|PBB|[0-9])
      ByPattern(after_no, g) ==
        ByIndicator(
          after_no, g,
          Lowest({ e \in (g + 2)..(Len(after_no) - 1) :
                     /\ \A k \in (g + 1)..(e - 1) : IsPayerChar(after_no[k + 1])
                     /\ after_no[e + 1] = " "
                     /\ LET b == BehindBlanks(after_no, e)
                        IN \/ \E m \in DOMAIN bank_indicators :
                                OccursAt(after_no, bank_indicators[m], b)
                           \/ RunLength(after_no, Digits, b) >= 1 }),
          MarkerDescStart(after_no, bank_indicators, 10, 1, Len(after_no)),
          Lowest({ k \in 0..Len(after_no) :
                     /\ OccursAt(after_no, <<" ">>, k)
                     /\ LET b == BehindBlanks(after_no, k)
                        IN /\ RunLength(after_no, Digits, b) >= 4
                           /\ b + 4 < Len(after_no)
                           /\ after_no[b + 5] \in {" ", "-"}
                           /\ RunLength(after_no, Digits, b + 5) >= 4 }))
      \* ^\d+\s+IMEPS\d+\s+ ends at index b2, 0 when it does not match
      AfterNo(after_no) ==
        LET d1 == RunLength(after_no, Digits, 0)
            b1 == BehindBlanks(after_no, d1)
            d2 == RunLength(after_no, Digits, b1 + 5)
            b2 == BehindBlanks(after_no, b1 + 5 + d2)
        IN ByPattern(after_no,
                     IF /\ d1 > 0
                        /\ b1 > d1
                        /\ OccursAt(after_no, <<"I", "M", "E", "P", "S">>, b1)
                        /\ d2 > 0
                        /\ b2 > b1 + 5 + d2
                     THEN b2 ELSE 0)
  IN IF find(txn_desc, pbb_markers.dep_ecp \o <<" ">>) = -1
     THEN [customer_name |-> <<>>, description |-> <<>>]
     ELSE AfterNo(SecondPart(txn_desc, pbb_markers.dep_ecp \o <<" ">>))

process_cheq_transaction(txn_desc) ==
  LET cheq_type == IF find(txn_desc, pbb_markers.dep_loc_cheq) # -1
                   THEN pbb_markers.dep_loc_cheq
                   ELSE pbb_markers.dep_hse_cheq
  IN IF find(txn_desc, cheq_type) = -1
     THEN [customer_name |-> <<>>, description |-> <<>>]
     ELSE
       LET after_no == Strip(SecondPart(txn_desc, cheq_type))
           asterisk_idx == find(after_no, <<"*">>)
           s == Strip(From(after_no, asterisk_idx + 1))
           \* ^(.*?)(\s+\([^)]+\))$ matches s with group(2) from index e on
           e == Lowest({ k \in 0..Len(s) :
                           /\ OccursAt(s, <<" ">>, k)
                           /\ \E p \in (k + 1)..(Len(s) - 3) :
                                /\ \A j \in k..(p - 1) : s[j + 1] = " "
                                /\ s[p + 1] = "("
                                /\ \A j \in (p + 1)..(Len(s) - 2) :
                                     s[j + 1] # ")"
                                /\ s[Len(s)] = ")" })
       IN IF asterisk_idx < 0
          THEN [customer_name |-> <<>>, description |-> <<>>]
          ELSE IF e # -1
          THEN [customer_name |-> Strip(UpTo(s, e)),
                description |-> Strip(From(s, e))]
          ELSE [customer_name |-> s, description |-> <<>>]

\* re.sub(r'SDN\.\s*BHD\.?', 'SDN BHD', s)
RECURSIVE FixSdnBhd(_)
FixSdnBhd(s) ==
  LET At(k) == /\ OccursAt(s, <<"S", "D", "N", ".">>, k)
               /\ OccursAt(s, <<"B", "H", "D">>, BehindBlanks(s, k + 4))
      k == Lowest({ j \in 0..Len(s) : At(j) })
      b == BehindBlanks(s, k + 4)
      e == IF OccursAt(s, <<".">>, b + 3) THEN b + 4 ELSE b + 3
  IN IF k = -1 THEN s
     ELSE UpTo(s, k) \o <<"S", "D", "N", " ", "B", "H", "D">> \o FixSdnBhd(From(s, e))

month_abbreviations ==
  << <<"J", "a", "n">>,
     <<"F", "e", "b">>,
     <<"M", "a", "r">>,
     <<"A", "p", "r">>,
     <<"M", "a", "y">>,
     <<"J", "u", "n">>,
     <<"J", "u", "l">>,
     <<"A", "u", "g">>,
     <<"S", "e", "p">>,
     <<"O", "c", "t">>,
     <<"N", "o", "v">>,
     <<"D", "e", "c">> >>

clean_customer_name(name) ==
  LET \* the repeated company name at the end
      RepeatedName(n, extra_info) ==
        LET words == split(n)
            repeated == /\ Len(words) > 3
                        /\ OccursAt(lower(join(SubSeq(words, 4, Len(words)))),
                                    lower(join(SubSeq(words, 1, 3))), 0)
        IN [name |-> Strip(IF repeated THEN join(SubSeq(words, 1, 3)) ELSE n),
            extra_info |->
              Strip(IF repeated
                    THEN Strip(extra_info \o <<" ">>
                                 \o join(SubSeq(words, 4, Len(words))))
                    ELSE extra_info)]
      \* \s+(20\d{2}).*$: the year alone goes to the extra text
      Year(n, extra_info) ==
        LET k == Lowest({ j \in 0..Len(n) :
                            /\ OccursAt(n, <<" ">>, j)
                            /\ OccursAt(n, <<"2", "0">>, BehindBlanks(n, j))
                            /\ RunLength(n, Digits, BehindBlanks(n, j) + 2) >= 2 })
        IN RepeatedName(IF k = -1 THEN n ELSE Strip(UpTo(n, k)),
                        IF k = -1 THEN extra_info
                        ELSE Strip(extra_info \o <<" ">>
                                     \o SubSeq(n, BehindBlanks(n, k) + 1,
                                               BehindBlanks(n, k) + 4)))
      \* \s+(?:Jan|...|Dec)\s+\d{2}.*$, letter case ignored
      Date(n, extra_info) ==
        LET k == Lowest({ j \in 0..Len(n) :
                            /\ OccursAt(n, <<" ">>, j)
                            /\ LET b == BehindBlanks(n, j)
                               IN /\ \E m \in DOMAIN month_abbreviations :
                                       OccursAt(lower(n),
                                                lower(month_abbreviations[m]), b)
                                  /\ OccursAt(n, <<" ">>, b + 3)
                                  /\ RunLength(n, Digits,
                                               BehindBlanks(n, b + 3)) >= 2 })
        IN Year(IF k = -1 THEN n ELSE Strip(UpTo(n, k)),
                IF k = -1 THEN extra_info
                ELSE Strip(extra_info \o <<" ">> \o From(n, k)))
      \* \s+([A-Z]{2,3}[-\d]+.*$)
      DocumentNumber(n, extra_info) ==
        LET k == Lowest({ j \in 0..Len(n) :
                            /\ OccursAt(n, <<" ">>, j)
                            /\ LET b == BehindBlanks(n, j)
                                   u == RunLength(n, { UpperLetters[i] : i \in 1..26 }, b)
                               IN /\ u \in {2, 3}
                                  /\ RunLength(n, Digits \cup {"-"}, b + u) >= 1 })
        IN Date(IF k = -1 THEN n ELSE Strip(UpTo(n, k)),
                IF k = -1 THEN extra_info
                ELSE Strip(extra_info \o <<" ">> \o From(n, BehindBlanks(n, k))))
      \* \s+(\d{8,}.*$)
      LongNumber(n) ==
        LET k == Lowest({ j \in 0..Len(n) :
                            /\ OccursAt(n, <<" ">>, j)
                            /\ RunLength(n, Digits, BehindBlanks(n, j)) >= 8 })
        IN DocumentNumber(IF k = -1 THEN n ELSE Strip(UpTo(n, k)),
                          IF k = -1 THEN <<>>
                          ELSE Strip(From(n, BehindBlanks(n, k))))
      \* the abbreviation SB at the end
      SB(fixed) ==
        LongNumber(IF EndsWith(fixed, <<"S", "B">>)
                   THEN Strip(ReplaceAll(fixed, <<"S", "B">>, <<>>))
                   ELSE fixed)
      \* name.rstrip('.') and the SDN. BHD. spellings
      Periods(stripped) ==
        SB(FixSdnBhd(UpTo(stripped,
             CHOOSE n \in 0..Len(stripped) :
               /\ \A k \in (n + 1)..Len(stripped) : stripped[k] = "."
               /\ n = 0 \/ stripped[n] # ".")))
  IN IF name = <<>> THEN [name |-> <<>>, extra_info |-> <<>>]
     ELSE Periods(Strip(name))

\* clean_description of pbb_txn_parser
pbb_clean_description(description) ==
  LET stripped == Strip(description)
      fund_transfer == <<"F", "u", "n", "d", " ", "t", "r", "a", "n", "s", "f", "e", "r">>
      \* behind "Sent from ": split(" ", 3) gives the text behind the source
      \* word, or the source word when nothing follows it
      behind == From(stripped, 10)
  IN IF description = <<>> THEN <<>>
     ELSE IF stripped = fund_transfer THEN <<>>
     ELSE IF OccursAt(stripped, fund_transfer \o <<" ">>, 0)
     THEN upper(Strip(From(stripped, Len(fund_transfer) + 1)))
     ELSE IF OccursAt(stripped, <<"S", "e", "n", "t", " ", "f", "r", "o", "m", " ">>, 0)
     THEN IF find(behind, <<" ">>) = -1 THEN upper(Strip(behind))
          ELSE upper(Strip(From(behind, find(behind, <<" ">>) + 1)))
     ELSE upper(stripped)

\* the pair the transaction function of a description returns, for a
\* description that carries one of the markers
pbb_split_parts(txn_desc) ==
  IF find(txn_desc, pbb_markers.duitnow) # -1
  THEN process_duitnow_transaction(txn_desc)
  ELSE IF find(txn_desc, pbb_markers.tsfr_fund) # -1
  THEN process_tsfr_fund_transaction(txn_desc)
  ELSE IF find(txn_desc, pbb_markers.dep_ecp) # -1
  THEN process_dep_ecp_transaction(txn_desc)
  ELSE process_cheq_transaction(txn_desc)

\* extract_transaction_info taking a text without a known marker for a name
pbb_extract_transaction_info_Guessing(txn_desc) ==
  IF \/ txn_desc = <<>>
     \/ txn_desc = NaN
     \/ \A m \in DOMAIN pbb_markers : find(txn_desc, pbb_markers[m]) = -1
  THEN IF txn_desc = <<>> \/ txn_desc = NaN
       THEN [customer_name |-> <<>>, description |-> <<>>]
       ELSE [customer_name |-> clean_customer_name(txn_desc).name,
             description |-> <<>>]
  ELSE
    LET Cleaned(cleaned, description) ==
          [customer_name |-> cleaned.name,
           description |->
             pbb_clean_description(
               IF cleaned.extra_info # <<>>
               THEN Strip(cleaned.extra_info \o <<" ">> \o description)
               ELSE description)]
        SplitParts(split_parts) ==
          Cleaned(clean_customer_name(split_parts.customer_name),
                  split_parts.description)
    IN SplitParts(pbb_split_parts(txn_desc))

\* extract_transaction_info of pbb_txn_parser.  A cell that is no text is
\* NaN
pbb_extract_transaction_info(txn_desc) ==
  IF \/ txn_desc = <<>>
     \/ txn_desc = NaN
     \/ \A m \in DOMAIN pbb_markers : find(txn_desc, pbb_markers[m]) = -1
  THEN [customer_name |-> <<>>, description |-> <<>>]
  ELSE
    LET Cleaned(cleaned, description) ==
          [customer_name |-> cleaned.name,
           description |->
             pbb_clean_description(
               IF cleaned.extra_info # <<>>
               THEN Strip(cleaned.extra_info \o <<" ">> \o description)
               ELSE description)]
        SplitParts(split_parts) ==
          Cleaned(clean_customer_name(split_parts.customer_name),
                  split_parts.description)
    IN SplitParts(pbb_split_parts(txn_desc))

(***************************************************************************)
(* sg_mbb_txn_parser                                                       *)
(***************************************************************************)

\* the prefixes extract_transaction_info looks for
sg_prefixes ==
  [fast |-> <<"I", "n", "w", "a", "r", "d", " ", "F", "A", "S", "T", " ", "-", " ">>,
   paynow |-> <<"I", "n", "w", "a", "r", "d", " ", "P", "a", "y", "N", "o", "w", " ", "f", "r", "o", "m", " ">>,
   giro |-> <<"G", "i", "r", "o", " ", "C", "r", "e", "d", "i", "t", " ", "f", "r", "o", "m", " ">>,
   ib_transfer |-> <<"I", "B", " ", "T", "r", "a", "n", "s", "f", "e", "r", " ", "f", "r", "o", "m", " ">>]

\* patterns of process_inward_paynow_ and process_giro_credit_transaction,
\* in list order
sg_patterns ==
  << <<"B", "E", "X", "P", "-">>,
     <<"I", "V", "P", "T", "-">>,
     <<"O", "T", "H", "R", "-">>,
     <<"G", "D", "D", "S", "-">>,
     <<"S", "U", "P", "P", "-">> >>

\* the index of the first entry of the list, each prefixed with lead, that
\* occurs in the text (the loops break at the first hit); -1 if none does
RECURSIVE FirstListed(_, _, _, _)
FirstListed(remaining, list, lead, m) ==
  IF m > Len(list) THEN -1
  ELSE IF find(remaining, lead \o list[m]) # -1
       THEN find(remaining, lead \o list[m])
       ELSE FirstListed(remaining, list, lead, m + 1)

process_inward_fast_transaction(txn_desc) ==
  LET remaining == From(txn_desc, Len(sg_prefixes.fast))
      comma == find(remaining, <<",", " ">>)
      first_part == IF comma = -1 THEN remaining ELSE UpTo(remaining, comma)
      normalized == NormalizePteLtd(ReplaceAll(first_part, <<".">>, <<>>))
  IN [customer_name |->
        IF EndsWith(normalized, <<" ", "P", "T", "E">>)
        THEN normalized \o <<" ", "L", "T", "D">> ELSE normalized,
      description |->
        IF comma = -1 THEN <<>> ELSE Strip(From(remaining, comma + 2))]

process_inward_paynow_transaction(txn_desc) ==
  LET remaining == From(txn_desc, Len(sg_prefixes.paynow))
      keywords ==
        << <<"F", "e", "b", "r", "u", "a", "r", "y">>,
           <<"M", "a", "r", "c", "h">>,
           <<"A", "p", "r", "i", "l">>,
           <<"M", "a", "y">>,
           <<"J", "u", "n", "e">>,
           <<"J", "u", "l", "y">>,
           <<"A", "u", "g", "u", "s", "t">>,
           <<"S", "e", "p", "t", "e", "m", "b", "e", "r">>,
           <<"O", "c", "t", "o", "b", "e", "r">>,
           <<"N", "o", "v", "e", "m", "b", "e", "r">>,
           <<"D", "e", "c", "e", "m", "b", "e", "r">>,
           <<"J", "a", "n">>,
           <<"F", "e", "b">>,
           <<"M", "a", "r">>,
           <<"A", "p", "r">>,
           <<"M", "a", "y">>,
           <<"J", "u", "n">>,
           <<"J", "u", "l">>,
           <<"A", "u", "g">>,
           <<"S", "e", "p">>,
           <<"O", "c", "t">>,
           <<"N", "o", "v">>,
           <<"D", "e", "c">> >>
      by_pattern == FirstListed(remaining, sg_patterns, <<>>, 1)
      by_keyword == FirstListed(remaining, keywords, <<" ">>, 1)
      desc_start_idx == IF by_pattern # -1 THEN by_pattern ELSE by_keyword
      split_name == IF desc_start_idx # -1
                    THEN Strip(UpTo(remaining, desc_start_idx))
                    ELSE Strip(remaining)
      normalized == NormalizePteLtd(ReplaceAll(split_name, <<".">>, <<>>))
  IN [customer_name |->
        IF /\ EndsWith(normalized, <<" ", "P", "T", "E">>)
           /\ normalized # <<"M", "O", "O", "D", " ", "C", "O", "L", "L", "E", "C", "T", "I", "V", "E", "S", " ", "P", "T", "E">>
        THEN normalized \o <<" ", "L", "T", "D">> ELSE normalized,
      description |->
        IF desc_start_idx # -1
        THEN Strip(From(remaining, desc_start_idx)) ELSE <<>>]

process_giro_credit_transaction(txn_desc) ==
  LET remaining == From(txn_desc, Len(sg_prefixes.giro))
      desc_start_idx == FirstListed(remaining, sg_patterns, <<>>, 1)
      split_name == IF desc_start_idx # -1
                    THEN Strip(UpTo(remaining, desc_start_idx))
                    ELSE Strip(remaining)
      without_periods == ReplaceAll(split_name, <<".">>, <<>>)
  IN [customer_name |->
        NormalizePteLtd(IF EndsWith(without_periods, <<" ", "P", "T", "E">>)
                        THEN without_periods \o <<" ", "L", "T", "D">>
                        ELSE without_periods),
      description |->
        IF desc_start_idx # -1
        THEN Strip(From(remaining, desc_start_idx)) ELSE <<>>]

process_ib_transfer_transaction(txn_desc) ==
  LET without_periods ==
        ReplaceAll(Strip(From(txn_desc, Len(sg_prefixes.ib_transfer))),
                   <<".">>, <<>>)
  IN [customer_name |->
        NormalizePteLtd(
          IF /\ ~EndsWith(without_periods, <<" ", "P">>)
             /\ EndsWith(without_periods, <<" ", "P", "T", "E">>)
          THEN without_periods \o <<" ", "L", "T", "D">>
          ELSE without_periods),
      description |-> <<>>]

\* extract_transaction_info of sg_mbb_txn_parser; its clean_description
\* strips the description
sg_extract_transaction_info(txn_desc) ==
  IF txn_desc = <<>> \/ txn_desc = NaN
  THEN [customer_name |-> <<>>, description |-> <<>>]
  ELSE
    LET stripped == Strip(txn_desc)
        split_parts ==
          IF OccursAt(stripped, sg_prefixes.fast, 0)
          THEN process_inward_fast_transaction(stripped)
          ELSE IF OccursAt(stripped, sg_prefixes.paynow, 0)
          THEN process_inward_paynow_transaction(stripped)
          ELSE IF OccursAt(stripped, sg_prefixes.giro, 0)
          THEN process_giro_credit_transaction(stripped)
          ELSE IF OccursAt(stripped, sg_prefixes.ib_transfer, 0)
          THEN process_ib_transfer_transaction(stripped)
          ELSE [customer_name |-> <<>>, description |-> <<>>]
    IN [customer_name |-> Strip(split_parts.customer_name),
        description |-> Strip(split_parts.description)]

(***************************************************************************)
(* Single calls of the parser functions.  A description is built from what *)
(* it starts with, a payer name and further words.                         *)
(***************************************************************************)

ParseNames ==
  { <<"A", "B", "C", " ", "C", "O">>,
    <<"S", "O", "L", "A", "R", " ", "C", "O">>,
    <<"A", "C", "M", "E", " ", "T", "R", "A", "D", "I", "N", "G", " ", "S", "D", "N", " ", "B", "H", "D">>,
    <<"A", "B", "C", " ", "P", "T", "E">>,
    <<"A", ".", "B", ".", " ", "P", "T", "E", " ", "L", "T", "D">>,
    <<"M", "O", "O", "D", " ", "C", "O", "L", "L", "E", "C", "T", "I", "V", "E", "S", " ", "P", "T", "E">> }
    \cup {CustomindDesign}

ParseTails ==
  { <<>>,
    <<"I", "N", "V", "1">>,
    <<"P", "O", " ", "2">>,
    <<"B", "i", "l", "l">>,
    <<"O", "T", "H", "R", "-", "x">>,
    <<"B", "E", "X", "P", "-", "y">>,
    <<"M", "a", "r", "c", "h", " ", "1">> }

ExtractTails ==
  { <<>>,
    <<"I", "N", "V", "1">>,
    <<"2", "0", "2", "4", " ", "X">>,
    <<"M", "a", "r", " ", "1", "2", " ", "x">>,
    <<"1", "2", "3", "4", "5", "6", "7", "8", " ", "A">>,
    <<"C", "I", "M", "B", " ", "1">>,
    <<"(", "1", "2", "/", "0", "3", ")">>,
    <<",", " ", "O", "T", "H", "R", "-", "x">> }

\* what a description of the PBB statement starts with: the known
\* transaction markers, whole or cut short, or none of them
PbbStarts ==
  { <<"D", "U", "I", "T", "N", "O", "W", " ", "T", "R", "S", "F", " ", "C", "R", " ", "-", " ", "N", "O", ":", " ", "1", "2", "3", "4", "5", " ">>,
    <<"D", "U", "I", "T", "N", "O", "W", " ", "T", "R", "S", "F", " ", "C", "R", " ", "-", " ", "N", "O", ":", " ">>,
    <<"D", "U", "I", "T", "N", "O", "W", " ", "T", "R", "S", "F", " ", "C", "R", " ", "-", " ", "N", "O", ":">>,
    <<"T", "S", "F", "R", " ", "F", "U", "N", "D", " ", "C", "R", "-", "A", "T", "M", "/", "E", "F", "T", " ", "-", " ", "N", "O", ":", " ", "1", "2", "3", " ", "X", "X", "X", "X", "X", "X", "9", "9", " ">>,
    <<"D", "E", "P", "-", "E", "C", "P", " ", "-", " ", "N", "O", ":", " ", "1", "2", " ", "I", "M", "E", "P", "S", "3", "4", " ">>,
    <<"D", "E", "P", "-", "L", "O", "C", " ", "C", "H", "E", "Q", " ", "-", " ", "N", "O", ":", " ", "1", " ", "*">>,
    <<"D", "E", "P", "-", "H", "S", "E", " ", "C", "H", "E", "Q", " ", "-", " ", "N", "O", ":", " ", "1", " ">>,
    <<"C", "A", "S", "H", " ", "D", "E", "P", "O", "S", "I", "T", " ">>,
    <<>> }

\* likewise for the SG statement
SgStarts ==
  { <<"I", "n", "w", "a", "r", "d", " ", "F", "A", "S", "T", " ", "-", " ">>,
    <<"I", "n", "w", "a", "r", "d", " ", "P", "a", "y", "N", "o", "w", " ", "f", "r", "o", "m", " ">>,
    <<"G", "i", "r", "o", " ", "C", "r", "e", "d", "i", "t", " ", "f", "r", "o", "m", " ">>,
    <<"I", "B", " ", "T", "r", "a", "n", "s", "f", "e", "r", " ", "f", "r", "o", "m", " ">>,
    <<" ", "G", "i", "r", "o", " ", "C", "r", "e", "d", "i", "t", " ", "f", "r", "o", "m", " ">>,
    <<"i", "n", "w", "a", "r", "d", " ", "f", "a", "s", "t", " ", "-", " ">>,
    <<"F", "r", "o", "m", " ", "G", "i", "r", "o", " ", "C", "r", "e", "d", "i", "t", " ", "f", "r", "o", "m", " ">>,
    <<>> }

\* s, a space and t; s alone when t is empty
WithTail(s, t) == IF t = <<>> THEN s ELSE s \o <<" ">> \o t

\* the calls: the three marker scans on a remainder of a name and two
\* tails (DuitNow with and without a reference number), and the two
\* extractors on a missing, empty or blank cell or on a start, a name (or
\* none) and a tail
ParseCalls ==
  LET Remainders == { WithTail(WithTail(name, t1), t2) :
                        name \in ParseNames, t1 \in ParseTails, t2 \in ParseTails }
      ExtractRemainders == { WithTail(name, t) :
                               name \in ParseNames \cup {<<>>}, t \in ExtractTails }
      NoDescriptions == { NaN, <<>>, <<" ">>, <<" ", " ">> }
  IN { [fn |-> "process_duitnow_transaction",
        txn_desc |-> pbb_markers.duitnow \o <<" ">> \o number \o remainder] :
         number \in { <<"1", "2", "3", "4", "5", " ">>, <<>> },
         remainder \in Remainders }
     \cup { [fn |-> "process_inward_paynow_transaction",
             txn_desc |-> sg_prefixes.paynow \o remainder] :
              remainder \in Remainders }
     \cup { [fn |-> "process_giro_credit_transaction",
             txn_desc |-> sg_prefixes.giro \o remainder] :
              remainder \in Remainders }
     \cup { [fn |-> "pbb.extract_transaction_info", txn_desc |-> txn_desc] :
              txn_desc \in NoDescriptions
                \cup { start \o remainder :
                         start \in PbbStarts, remainder \in ExtractRemainders } }
     \cup { [fn |-> "sg.extract_transaction_info", txn_desc |-> txn_desc] :
              txn_desc \in NoDescriptions
                \cup { start \o remainder :
                         start \in SgStarts, remainder \in ExtractRemainders } }

InitParse ==
  /\ ReconIdle
  /\ PayIdle
  /\ fn_pc = "called"
  /\ fn_arg \in ParseCalls
  /\ fn_out = [customer_name |-> <<>>, description |-> <<>>]

Duitnow ==
  /\ fn_pc = "called"
  /\ fn_arg.fn = "process_duitnow_transaction"
  /\ fn_out' = process_duitnow_transaction(fn_arg.txn_desc)
  /\ fn_pc' = "returned"
  /\ UNCHANGED fn_arg
  /\ UNCHANGED <<recon_vars, pay_vars>>

InwardPaynow ==
  /\ fn_pc = "called"
  /\ fn_arg.fn = "process_inward_paynow_transaction"
  /\ fn_out' = process_inward_paynow_transaction(fn_arg.txn_desc)
  /\ fn_pc' = "returned"
  /\ UNCHANGED fn_arg
  /\ UNCHANGED <<recon_vars, pay_vars>>

GiroCredit ==
  /\ fn_pc = "called"
  /\ fn_arg.fn = "process_giro_credit_transaction"
  /\ fn_out' = process_giro_credit_transaction(fn_arg.txn_desc)
  /\ fn_pc' = "returned"
  /\ UNCHANGED fn_arg
  /\ UNCHANGED <<recon_vars, pay_vars>>

PbbExtract ==
  /\ fn_pc = "called"
  /\ fn_arg.fn = "pbb.extract_transaction_info"
  /\ fn_out' = pbb_extract_transaction_info(fn_arg.txn_desc)
  /\ fn_pc' = "returned"
  /\ UNCHANGED fn_arg
  /\ UNCHANGED <<recon_vars, pay_vars>>

SgExtract ==
  /\ fn_pc = "called"
  /\ fn_arg.fn = "sg.extract_transaction_info"
  /\ fn_out' = sg_extract_transaction_info(fn_arg.txn_desc)
  /\ fn_pc' = "returned"
  /\ UNCHANGED fn_arg
  /\ UNCHANGED <<recon_vars, pay_vars>>

NextParse ==
  \/ Duitnow
  \/ InwardPaynow
  \/ GiroCredit
  \/ PbbExtract
  \/ SgExtract

SpecParse == InitParse /\ [][NextParse]_vars

\* the text a marker scan runs over: the description behind the prefix
\* (and, for DuitNow, behind the reference number)
ScannedRemainder ==
  IF fn_arg.fn = "process_duitnow_transaction"
  THEN LET after_no == From(fn_arg.txn_desc, Len(pbb_markers.duitnow) + 1)
           digits == RunLength(after_no, Digits, 0)
       IN IF digits > 0 THEN From(after_no, BehindBlanks(after_no, digits))
          ELSE after_no
  ELSE IF fn_arg.fn = "process_inward_paynow_transaction"
  THEN From(fn_arg.txn_desc, Len(sg_prefixes.paynow))
  ELSE From(fn_arg.txn_desc, Len(sg_prefixes.giro))

\* the description-start markers of the called function
ScannedMarkers ==
  IF fn_arg.fn = "process_duitnow_transaction"
  THEN { duitnow_desc_markers[m] : m \in DOMAIN duitnow_desc_markers }
  ELSE { sg_patterns[m] : m \in DOMAIN sg_patterns }

\* the call scans its remainder for markers: a DuitNow description is
\* scanned only behind a reference number and without the fixed payer name
MarkersScanned ==
  \/ fn_arg.fn \in {"process_inward_paynow_transaction",
                    "process_giro_credit_transaction"}
  \/ /\ fn_arg.fn = "process_duitnow_transaction"
     /\ ScannedRemainder # From(fn_arg.txn_desc, Len(pbb_markers.duitnow) + 1)
     /\ find(ScannedRemainder, CustomindDesign) = -1

\* C17 as the specification states it: whenever description-start markers
\* occur in the scanned remainder, the first of them after a non-empty
\* name, the description returned starts at the lowest index any marker
\* occurs at, whatever the order of the marker list.
C17_SplitAtLowestMarkerIndex ==
  (/\ fn_pc = "returned"
   /\ fn_arg.fn \in {"process_duitnow_transaction",
                     "process_inward_paynow_transaction"}
   /\ MarkersScanned)
  => LET lowest == Lowest({ k \in 0..Len(ScannedRemainder) :
                              \E marker \in ScannedMarkers :
                                OccursAt(ScannedRemainder, marker, k) })
     IN lowest > 0
        => fn_out.description = Strip(From(ScannedRemainder, lowest))

\* the indices a call may split its remainder at: the first occurrence of
\* each marker, for DuitNow only behind the first character
SplitCandidates ==
  { k \in 0..Len(ScannedRemainder) :
      /\ \E marker \in ScannedMarkers : find(ScannedRemainder, marker) = k
      /\ fn_arg.fn = "process_duitnow_transaction" => k > 0 }

CarriesPrefixMarker ==
  IF fn_arg.fn = "pbb.extract_transaction_info"
  THEN \E m \in DOMAIN pbb_markers :
         find(fn_arg.txn_desc, pbb_markers[m]) # -1
  ELSE \E m \in DOMAIN sg_prefixes :
         OccursAt(Strip(fn_arg.txn_desc), sg_prefixes[m], 0)

C20_StrippedWordsReattached ==
  (/\ fn_pc = "returned"
   /\ fn_arg.fn = "pbb.extract_transaction_info"
   /\ fn_arg.txn_desc # NaN
   /\ CarriesPrefixMarker)
  => LET candidate == pbb_split_parts(fn_arg.txn_desc).customer_name
         Words(s) == { split(s)[k] : k \in DOMAIN split(s) }
     IN (/\ find(candidate, <<".">>) = -1
         /\ ~EndsWith(Strip(candidate), <<"S", "B">>)
         /\ clean_customer_name(candidate).extra_info # <<>>)
        => \A word \in Words(candidate) :
             \/ word \in Words(fn_out.customer_name)
             \/ upper(word) \in Words(fn_out.description)

(***************************************************************************)
(* The MBB parser of src/parser/MY_mbb_txn_parser.py and the predictors of *)
(* the trained classifier                                                  *)
(***************************************************************************)

\* re.sub over s: ends[k] is where the match that starts at index k ends,
\* or -1; the leftmost matches are replaced by rep, from index k on
RECURSIVE SubMatches(_, _, _, _)
SubMatches(s, ends, rep, k) ==
  LET first == Lowest({ j \in k..(Len(s) - 1) : ends[j] > j })
  IN  IF first = -1 THEN From(s, k)
      ELSE SubSeq(s, k + 1, first) \o rep
             \o SubMatches(s, ends, rep, ends[first])

\* \w and [A-Za-z] over the alphabet of the model
AsciiLetters ==
  {UpperLetters[n] : n \in DOMAIN UpperLetters}
    \cup {LowerLetters[n] : n \in DOMAIN LowerLetters}
WordChars == AsciiLetters \cup Digits \cup {"_"}

\* the character of s at index k, "" behind the end
CharAt(s, k) == IF k < Len(s) THEN s[k + 1] ELSE ""

\* basic_clean_customer_name, one substitution after the other
basic_clean_customer_name(text) ==
  LET Sub(s, End(_, _), rep) ==
        SubMatches(s, [k \in 0..(Len(s) - 1) |-> End(s, k)], rep, 0)
      Literal(s, pat, rep) == ReplaceAll(s, pat, rep)
      \* ^\d+\s*
      LeadingDigits(s, k) ==
        IF k = 0 /\ RunLength(s, Digits, 0) > 0
          THEN BehindBlanks(s, RunLength(s, Digits, 0)) ELSE -1
      \* \*.*$
      FromAsterisk(s, k) == IF s[k + 1] = "*" THEN Len(s) ELSE -1
      \* @\w+
      AtWord(s, k) ==
        IF s[k + 1] = "@" /\ RunLength(s, WordChars, k + 1) > 0
          THEN k + 1 + RunLength(s, WordChars, k + 1) ELSE -1
      \* IBG PAYMENT INTO A/C\s*
      IbgPayment(s, k) ==
        LET pat == <<"I", "B", "G", " ", "P", "A", "Y", "M", "E", "N", "T",
                     " ", "I", "N", "T", "O", " ", "A", "/", "C">>
        IN  IF OccursAt(s, pat, k) THEN BehindBlanks(s, k + Len(pat)) ELSE -1
      \* MBB CT\s*
      MbbCt(s, k) ==
        LET pat == <<"M", "B", "B", " ", "C", "T">>
        IN  IF OccursAt(s, pat, k) THEN BehindBlanks(s, k + Len(pat)) ELSE -1
      \* \(\s*\)
      EmptyParens(s, k) ==
        IF s[k + 1] = "(" /\ CharAt(s, BehindBlanks(s, k + 1)) = ")"
          THEN BehindBlanks(s, k + 1) + 1 ELSE -1
      \* \(\s*[0-9]+\s*\)
      NumberInParens(s, k) ==
        LET d == BehindBlanks(s, k + 1)
            e == BehindBlanks(s, d + RunLength(s, Digits, d))
        IN  IF s[k + 1] = "(" /\ RunLength(s, Digits, d) > 0
               /\ CharAt(s, e) = ")"
              THEN e + 1 ELSE -1
      \* \(\s*\d{1,2}[-]?[A-Za-z]{3}[-]?\d*\s*\)
      Hyphen(s, j) == IF CharAt(s, j) = "-" THEN j + 1 ELSE j
      DateInParens(s, k) ==
        LET d == BehindBlanks(s, k + 1)
            a == Hyphen(s, d + RunLength(s, Digits, d))
            b == Hyphen(s, a + 3)
            e == BehindBlanks(s, b + RunLength(s, Digits, b))
        IN  IF s[k + 1] = "(" /\ RunLength(s, Digits, d) \in {1, 2}
               /\ \A j \in a..(a + 2) : CharAt(s, j) \in AsciiLetters
               /\ CharAt(s, e) = ")"
              THEN e + 1 ELSE -1
      \* \[.*?\]
      Brackets(s, k) ==
        IF s[k + 1] = "[" /\ find(From(s, k + 1), <<"]">>) # -1
          THEN k + 1 + find(From(s, k + 1), <<"]">>) + 1 ELSE -1
      \* \s*\/+\s*$
      TrailingSlash(s, k) ==
        LET b == BehindBlanks(s, k)
            e == BehindBlanks(s, b + RunLength(s, {"/"}, b))
        IN  IF RunLength(s, {"/"}, b) > 0 /\ e = Len(s) THEN e ELSE -1
      \* SDN\s*BH
      SdnBh(s, k) ==
        IF OccursAt(s, <<"S", "D", "N">>, k)
           /\ OccursAt(s, <<"B", "H">>, BehindBlanks(s, k + 3))
          THEN BehindBlanks(s, k + 3) + 2 ELSE -1
      Parens(s) ==
        Sub(Sub(Sub(Sub(s, EmptyParens, <<>>), NumberInParens, <<>>),
                DateInParens, <<>>), Brackets, <<>>)
      Payments(s) ==
        Sub(Sub(Literal(Sub(Sub(Sub(s, LeadingDigits, <<>>),
                                FromAsterisk, <<>>), AtWord, <<>>),
                        <<"-">>, <<>>), IbgPayment, <<>>), MbbCt, <<>>)
      Periods(s) ==
        Literal(Literal(Literal(s, <<"S", "D", "N", ".">>, <<"S", "D", "N">>),
                        <<"B", "H", "D", ".">>, <<"B", "H", "D">>),
                <<"B", "H", ".">>, <<"B", "H">>)
      SdnBhd(s) ==
        Literal(Literal(Sub(s, SdnBh, <<"S", "D", "N", " ", "B", "H">>),
                        <<"S", "D", "N", "B", "H">>,
                        <<"S", "D", "N", " ", "B", "H">>),
                <<"S", "D", "N", "B", "H", "D">>,
                <<"S", "D", "N", " ", "B", "H", "D">>)
  IN  IF text = NaN \/ text = <<>> THEN text
      ELSE Strip(Literal(SdnBhd(Periods(
             Sub(Parens(Payments(text)), TrailingSlash, <<>>))),
             <<"S", "/", "B">>, <<>>))

\* format_customer_name: a missing name is no empty value, str() makes it
\* the text nan
format_customer_name(name) ==
  IF name = <<>> THEN name
  ELSE upper(ReplaceAll(ReplaceAll(StrOfCell(name), <<"É">>, <<"E">>),
                        <<"&", "a", "m", "p", ";">>, <<"&">>))

\* defaults of predict_clean_name, min_confidence in percent
MinConfidencePct == 50
FuzzyThreshold == 85

\* a predictor that raises
Raised == [raises |-> TRUE]

\* predict_clean_name of the MBB parser: the name returned and the stage
\* that gave it.  best is what process.extractOne answers for the lowered
\* name, [best_match, score], and nothing when there are no training
\* examples; pred is what the classifier answers, [pred_class, max_prob],
\* unless it raises
predict_clean_name(raw_name, model_data, best, pred) ==
  IF raw_name = NaN \/ raw_name = <<>>
    THEN [stage |-> "none", name |-> raw_name]
  ELSE IF lower(raw_name) \in DOMAIN model_data.reference_dict
    THEN [stage |-> "dictionary",
          name |-> format_customer_name(
                     model_data.reference_dict[lower(raw_name)])]
  ELSE IF model_data.training_examples = {} THEN Raised
  ELSE IF best.score >= FuzzyThreshold
    THEN [stage |-> "fuzzy",
          name |-> format_customer_name(
                     model_data.reference_dict[best.best_match])]
  ELSE IF pred.raises THEN Raised
  ELSE IF pred.max_prob >= MinConfidencePct
    THEN [stage |-> "classifier",
          name |-> format_customer_name(pred.pred_class)]
  ELSE [stage |-> "normalizer",
        name |-> format_customer_name(basic_clean_customer_name(raw_name))]

\* predict_customer_name of the PBB parser with a model: the dictionary,
\* then the class the classifier predicts, and the empty name when the
\* classifier raises
predict_customer_name(txn_desc, model_data, pred) ==
  IF txn_desc = NaN \/ txn_desc = <<>>
    THEN [stage |-> "none", name |-> <<>>]
  ELSE IF lower(txn_desc) \in DOMAIN model_data.reference_dict
    THEN [stage |-> "dictionary",
          name |-> model_data.reference_dict[lower(txn_desc)]]
  ELSE IF pred.raises THEN [stage |-> "none", name |-> <<>>]
  ELSE [stage |-> "classifier", name |-> pred.pred_class]

\* a trained model: the alias dictionary, keyed by lowered raw names, and
\* its keys as training examples
TrainedModel ==
  LET reference_dict ==
        [raw \in {lower(ACE), lower(MX)} |->
           IF raw = lower(ACE) THEN XaLower ELSE MX]
  IN  [reference_dict |-> reference_dict,
       training_examples |-> DOMAIN reference_dict]

\* the calls: a raw name, the answer of the fuzzy search and the answer of
\* the classifier
InitPredict ==
  /\ ReconIdle
  /\ PayIdle
  /\ fn_pc \in {"predict_clean_name", "predict_customer_name"}
  /\ \E raw_name \in {<<"A", "c", "e">>, <<"1", " ", "M", "Y", "*">>, XA},
        score \in {0, FuzzyThreshold - 1, FuzzyThreshold, 100},
        max_prob \in {0, MinConfidencePct - 1, MinConfidencePct, 100},
        raises \in BOOLEAN :
       fn_arg = [raw_name |-> raw_name,
                 model_data |-> TrainedModel,
                 best |-> [best_match |-> lower(MX), score |-> score],
                 pred |-> [raises |-> raises, pred_class |-> YY,
                           max_prob |-> max_prob]]
  /\ fn_out = <<>>

PredictCleanName ==
  /\ fn_pc = "predict_clean_name"
  /\ fn_out' = predict_clean_name(fn_arg.raw_name, fn_arg.model_data,
                                  fn_arg.best, fn_arg.pred)
  /\ fn_pc' = "returned"
  /\ UNCHANGED fn_arg
  /\ UNCHANGED <<recon_vars, pay_vars>>

PredictCustomerName ==
  /\ fn_pc = "predict_customer_name"
  /\ fn_out' = predict_customer_name(fn_arg.raw_name, fn_arg.model_data,
                                     fn_arg.pred)
  /\ fn_pc' = "returned"
  /\ UNCHANGED fn_arg
  /\ UNCHANGED <<recon_vars, pay_vars>>

NextPredict ==
  \/ PredictCleanName
  \/ PredictCustomerName

SpecPredict == InitPredict /\ [][NextPredict]_vars

\* C22 as the specification states it: a predictor resolves a raw name by
\* the first of: the dictionary entry of the lowered name; the best fuzzy
\* match when its score is at least fuzzy_threshold; the predicted class
\* when its probability is at least min_confidence; the Normalizer.
C22_FirstHitInFixedOrder ==
  fn_pc = "returned" /\ ~fn_arg.pred.raises
  => fn_out # Raised /\ fn_out.stage =
       IF lower(fn_arg.raw_name) \in DOMAIN fn_arg.model_data.reference_dict
         THEN "dictionary"
       ELSE IF fn_arg.best.score >= FuzzyThreshold THEN "fuzzy"
       ELSE IF fn_arg.pred.max_prob >= MinConfidencePct THEN "classifier"
       ELSE "normalizer"

\* the columns parse_mbb_txn requires
required_columns ==
  {"Transaction Description.1", "Transaction Description", "Transaction Ref",
   "Posting date"}

\* df.at[idx, 'CUSTOMER_NAME'] = value on a frame whose rows carry their
\* index labels: the row labelled idx is written; when no row has that
\* label the frame gets a new last row labelled idx, with missing cells in
\* every other column
SetAtLabel(df, columns, idx, value) ==
  IF \E j \in DOMAIN df : df[j].label = idx
    THEN [j \in DOMAIN df |->
            IF df[j].label = idx
              THEN [df[j] EXCEPT !.row["CUSTOMER_NAME"] = value]
            ELSE df[j]]
  ELSE Append(df, [label |-> idx,
                   row |-> [c \in columns |->
                              IF c = "CUSTOMER_NAME" THEN value ELSE NaN]])

\* the loop `for idx, name in enumerate(df['raw_customer_name'])` of
\* parse_mbb_txn from position idx on, over the names cleaned before
RECURSIVE WriteNames(_, _, _, _)
WriteNames(df, columns, cleaned, idx) ==
  IF idx >= Len(cleaned) THEN df
  ELSE WriteNames(SetAtLabel(df, columns, idx, cleaned[idx + 1]), columns,
                  cleaned, idx + 1)

\* parse_mbb_txn(file_path, model_data=model_data): the frame returned,
\* unless it raises.  best and pred are the answers of the fuzzy search and
\* of the classifier to the names of this batch.  It raises for a file
\* that is missing or cannot be read (lines 170-191), for a missing
\* required column (194-197), for a model without 'reference_dict' (226),
\* and when no row has a posting date, where the success rate of line 257
\* divides by zero.  The rows without a posting date are dropped (201);
\* the columns added meanwhile are dropped again (270).
parse_mbb_txn(file, model_data, best, pred) ==
  LET columns == file.columns \cup {"CUSTOMER_NAME"}
      rows == read_csv(file.rows)
      labelled ==
        [i \in DOMAIN rows |->
           [label |-> i - 1,
            row |-> [c \in columns |->
                       IF c \in DOMAIN rows[i] THEN rows[i][c] ELSE NaN]]]
      HasPostingDate(r) == r.row["Posting date"] # NaN
      df == SelectSeq(labelled, HasPostingDate)
      raw_customer_name(r) ==
        IF r.row["Transaction Description.1"] # NaN
           /\ r.row["Transaction Description.1"] # <<"-">>
          THEN r.row["Transaction Description.1"]
        ELSE r.row["Transaction Description"]
      \* the name written for a raw name; the model branch raises when
      \* the predictor raises and when it returns a missing name, which
      \* has no strip()
      Cleaned(name) ==
        IF model_data = None
          THEN format_customer_name(basic_clean_customer_name(name))
        ELSE LET p == predict_clean_name(name, model_data, best, pred)
             IN  IF p = Raised THEN Raised
                 ELSE IF p.name = NaN THEN Raised
                 ELSE p.name
      cleaned == [j \in DOMAIN df |-> Cleaned(raw_customer_name(df[j]))]
      Written(names) == WriteNames(df, columns, names, 0)
      Result(written) ==
        [raises |-> FALSE,
         columns |-> columns \cup {"DESCRIPTION"},
         rows |-> [j \in DOMAIN written |->
                     [c \in columns \cup {"DESCRIPTION"} |->
                        IF c = "DESCRIPTION" THEN <<>>
                        ELSE written[j].row[c]]]]
  IN  IF ~file.exists \/ file.columns = {} THEN Raised
      ELSE IF ~(required_columns \subseteq file.columns) THEN Raised
      ELSE IF model_data # None /\ "reference_dict" \notin DOMAIN model_data
        THEN Raised
      ELSE IF \E j \in DOMAIN cleaned : cleaned[j] = Raised THEN Raised
      ELSE IF df = <<>> THEN Raised
      ELSE Result(Written(cleaned))

\* most rows of a batch of the parser
MaxBatch == 2

\* what the model file unpickles to when it holds something else than a
\* trained model: a dictionary without 'reference_dict'
OtherPickle == [training_examples |-> {}]

\* model_data after lines 286-295 of main: a missing file and a file that
\* pickle.load cannot read leave None; a file that unpickles is bound to
\* model_data before its 'reference_dict' is looked at
load_model(model_file) ==
  IF model_file = "missing" THEN None
  ELSE IF model_file = "unreadable" THEN None
  ELSE IF model_file = "other" THEN OtherPickle
  ELSE TrainedModel

\* the runs of main: the model file, the downloaded batch and the answers
\* of the fuzzy search and of the classifier
InitMbb ==
  /\ ReconIdle
  /\ PayIdle
  /\ fn_pc = "load_model"
  /\ LET Row(desc1, desc, date) ==
           [c \in required_columns \cup {"CUSTOMER_NAME"} |->
              IF c = "Transaction Description.1" THEN desc1
              ELSE IF c = "Transaction Description" THEN desc
              ELSE IF c = "Transaction Ref" THEN Inv
              ELSE IF c = "Posting date" THEN date
              ELSE NaN]
         Pool == { Row(<<"A", "c", "e">>, XA, Ten),
                   Row(<<"-">>, <<"1", " ", "M", "Y", "*">>, Ten),
                   Row(XA, NaN, NaN),
                   Row(NaN, NaN, Ten) }
         Files ==
           { CsvFile(required_columns \cup {"CUSTOMER_NAME"}, rows) :
               rows \in UNION { [1..n -> Pool] : n \in 1..MaxBatch } }
             \cup { NoFile,
                    CsvFile({"Posting date"}, <<[c \in {"Posting date"} |-> Ten]>>) }
     IN  \E model_file \in {"missing", "unreadable", "other", "trained"},
            file \in Files, score \in {0, 100}, max_prob \in {0, 100} :
           /\ model_file # "trained" => score = 0 /\ max_prob = 0
           /\ fn_arg = [model_file |-> model_file, file |-> file,
                        best |-> [best_match |-> lower(MX), score |-> score],
                        pred |-> [raises |-> FALSE, pred_class |-> YY,
                                  max_prob |-> max_prob]]
  /\ fn_out = [model_data |-> None, df |-> Raised, output |-> NoFile]

\* main lines 284-295
LoadModel ==
  /\ fn_pc = "load_model"
  /\ fn_out' = [fn_out EXCEPT !.model_data = load_model(fn_arg.model_file)]
  /\ fn_pc' = "parse"
  /\ UNCHANGED fn_arg
  /\ UNCHANGED <<recon_vars, pay_vars>>

\* main lines 297-299 and 308-313: the parse, and the end of the run when
\* it raises
ParseMbbTxn ==
  /\ fn_pc = "parse"
  /\ LET df == parse_mbb_txn(fn_arg.file, fn_out.model_data, fn_arg.best,
                             fn_arg.pred)
     IN  /\ fn_out' = [fn_out EXCEPT !.df = df]
         /\ fn_pc' = IF df = Raised THEN "failed" ELSE "save"
  /\ UNCHANGED fn_arg
  /\ UNCHANGED <<recon_vars, pay_vars>>

\* main lines 301-305
SaveProcessed ==
  /\ fn_pc = "save"
  /\ fn_out' = [fn_out EXCEPT
       !.output = CsvFile(fn_out.df.columns, to_csv(fn_out.df.rows))]
  /\ fn_pc' = "completed"
  /\ UNCHANGED fn_arg
  /\ UNCHANGED <<recon_vars, pay_vars>>

NextMbb ==
  \/ LoadModel
  \/ ParseMbbTxn
  \/ SaveProcessed

SpecMbb == InitMbb /\ [][NextMbb]_vars

\* C21 as the specification states it: the batch the parser writes holds
\* the rows of the input batch, as many and in the same order, with the
\* same columns and the same cells outside CUSTOMER_NAME and DESCRIPTION.
C21_SameRowsOnlyNameAndDescription ==
  LET input == read_csv(fn_arg.file.rows)
      output == fn_out.output
  IN  fn_pc = "completed"
      => /\ output.exists
         /\ output.columns = fn_arg.file.columns \cup {"CUSTOMER_NAME", "DESCRIPTION"}
         /\ Len(output.rows) = Len(input)
         /\ \A i \in DOMAIN output.rows :
              \A c \in fn_arg.file.columns \ {"CUSTOMER_NAME", "DESCRIPTION"} :
                i \in DOMAIN input /\ output.rows[i][c] = input[i][c]

\* C33: the batch the MBB parser writes has one row for each input row
\* with a posting date, and the CUSTOMER_NAME of each written row is the
\* name computed from the description fields of that same row.
C33_NameFromOwnRow ==
  LET input == read_csv(fn_arg.file.rows)
      dated == { i \in DOMAIN input : input[i]["Posting date"] # NaN }
      raw_customer_name(row) ==
        IF row["Transaction Description.1"] # NaN
           /\ row["Transaction Description.1"] # <<"-">>
          THEN row["Transaction Description.1"]
        ELSE row["Transaction Description"]
      NameOf(row) ==
        IF fn_out.model_data = None
          THEN format_customer_name(
                 basic_clean_customer_name(raw_customer_name(row)))
        ELSE predict_clean_name(raw_customer_name(row), fn_out.model_data,
                                fn_arg.best, fn_arg.pred).name
  IN  fn_pc = "completed"
      => /\ Len(fn_out.output.rows) = Cardinality(dated)
         /\ \A j \in DOMAIN fn_out.output.rows :
              fn_out.output.rows[j]["CUSTOMER_NAME"]
                = NameOf(fn_out.output.rows[j])

\* C23 as the specification states it: when the model file is missing or
\* holds no trained model, the run ends as the run without a model does:
\* it writes the batch that Normalizer-only parsing returns, and it fails
\* only where Normalizer-only parsing fails.
C23_ModelFailureIsNormalizerOnly ==
  LET normalizer_only ==
        parse_mbb_txn(fn_arg.file, None, fn_arg.best, fn_arg.pred)
  IN  fn_arg.model_file \in {"missing", "unreadable", "other"}
      => /\ fn_pc = "failed" => normalizer_only = Raised
         /\ fn_pc = "completed"
            => /\ normalizer_only # Raised
               /\ fn_out.output.rows = normalizer_only.rows

(***************************************************************************)
(* The alias table chosen for a batch file                                 *)
(***************************************************************************)

MBB_2025_PROCESSED_CSV ==
  <<"M", "B", "B", "_", "2", "0", "2", "5", "_", "P", "R", "O", "C",
  "E", "S", "S", "E", "D", ".", "C", "S", "V">>

PBB_2025_PROCESSED_CSV ==
  <<"P", "B", "B", "_", "2", "0", "2", "5", "_", "P", "R", "O", "C",
  "E", "S", "S", "E", "D", ".", "C", "S", "V">>

SG_MBB_2025_PROCESSED_CSV ==
  <<"S", "G", "_", "M", "B", "B", "_", "2", "0", "2", "5", "_", "P",
  "R", "O", "C", "E", "S", "S", "E", "D", ".", "C", "S", "V">>

SMARTHOME_MBB_2025_PROCESSED_CSV ==
  <<"S", "M", "A", "R", "T", "H", "O", "M", "E", "_", "M", "B", "B",
  "_", "2", "0", "2", "5", "_", "P", "R", "O", "C", "E", "S", "S", "E",
  "D", ".", "C", "S", "V">>

\* database_mapping, in the order the dictionary is written
database_mapping ==
  << [pattern |-> MBB_2025_PROCESSED_CSV,
      local_db |-> "data/customer_db/MY_MBB_CUSTOMER_NAME.csv",
      bc_cache |-> "data/customer_db/BC_MY_CUSTOMERS.csv"],
     [pattern |-> PBB_2025_PROCESSED_CSV,
      local_db |-> "data/customer_db/MY_PBB_CUSTOMER_NAME.csv",
      bc_cache |-> "data/customer_db/BC_MY_CUSTOMERS.csv"],
     [pattern |-> SG_MBB_2025_PROCESSED_CSV,
      local_db |-> "data/customer_db/SG_MBB_customer_name.csv",
      bc_cache |-> "data/customer_db/BC_MY_CUSTOMERS.csv"],
     [pattern |-> SMARTHOME_MBB_2025_PROCESSED_CSV,
      local_db |-> "data/customer_db/MY_MBB_CUSTOMER_NAME.csv",
      bc_cache |-> "data/customer_db/BC_MY_CUSTOMERS.csv"] >>

\* pattern in file_name
InText(pattern, file_name) ==
  \E k \in 0..(Len(file_name) - Len(pattern)) :
    SubSeq(file_name, k + 1, k + Len(pattern)) = pattern

\* lines 207-235: the first entry of the mapping whose pattern occurs in
\* the upper-cased file name, None when no pattern does
database_config(name) ==
  LET file_name == upper(name)
      hits == { k \in DOMAIN database_mapping :
                  InText(database_mapping[k].pattern, file_name) }
  IN  IF hits = {} THEN None
      ELSE database_mapping[Lowest(hits)]

\* the calls: the batch file of a bank profile, of another bank or of
\* another year, named in either case, and the alias tables on disk
InitDatabases ==
  /\ ReconIdle
  /\ PayIdle
  /\ fn_pc = "call"
  /\ LET Prefixes == { <<>>, <<"S", "G", "_">>, <<"s", "g", "_">>,
                       <<"S", "M", "A", "R", "T", "H", "O", "M", "E", "_">> }
         Banks == { <<"M", "B", "B">>, <<"P", "B", "B">>, <<"R", "H", "B">> }
         Years == { <<"2", "0", "2", "5">>, <<"2", "0", "2", "4">> }
         Stem == <<"_", "p", "r", "o", "c", "e", "s", "s", "e", "d",
                   ".", "c", "s", "v">>
         Tables == { database_mapping[k].local_db : k \in DOMAIN database_mapping }
     IN  \E prefix \in Prefixes, bank \in Banks, year \in Years,
            existing \in SUBSET Tables :
           fn_arg = [name |-> prefix \o bank \o <<"_">> \o year \o Stem,
                     existing |-> existing]
  /\ fn_out = <<>>

\* update_customer_name_for_file_dual, lines 206-243: False when no entry
\* matches or the alias table is not on disk, otherwise the run goes on
\* with the tables of the entry
SelectDatabases ==
  /\ fn_pc = "call"
  /\ LET config == database_config(fn_arg.name)
     IN  IF config = None
           THEN fn_pc' = "returned_false" /\ fn_out' = None
         ELSE IF config.local_db \notin fn_arg.existing
           THEN fn_pc' = "returned_false" /\ fn_out' = config
         ELSE fn_pc' = "loading" /\ fn_out' = config
  /\ UNCHANGED fn_arg
  /\ UNCHANGED <<recon_vars, pay_vars>>

NextDatabases == SelectDatabases

SpecDatabases == InitDatabases /\ [][NextDatabases]_vars

\* C37: a batch file is reconciled against the alias table of its own
\* bank profile: SG_MBB_2025_processed.csv against the SG table,
\* MBB_2025_processed.csv against the MY MBB table, PBB_2025_processed.csv
\* against the MY PBB table.
C37_AliasTableOfOwnProfile ==
  LET file_name == upper(fn_arg.name)
  IN  fn_pc = "loading"
      => /\ file_name = SG_MBB_2025_PROCESSED_CSV
            => fn_out.local_db = "data/customer_db/SG_MBB_customer_name.csv"
         /\ file_name = MBB_2025_PROCESSED_CSV
            => fn_out.local_db = "data/customer_db/MY_MBB_CUSTOMER_NAME.csv"
         /\ file_name = PBB_2025_PROCESSED_CSV
            => fn_out.local_db = "data/customer_db/MY_PBB_CUSTOMER_NAME.csv"

(***************************************************************************)
(* update_bc_customer_cache                                                *)
(***************************************************************************)

\* most customers one refresh fetches
MaxFetched == 2

\* a text cell as DataFrame.to_csv leaves it in the file: the empty text
\* is written as an empty cell
WrittenCell(text) == IF text = <<>> THEN NaN ELSE text

\* export_customers_with_contact_to_csv lines 180-197: the row written for
\* a fetched record
CacheRow(customer, api_endpoint_used) ==
  IF api_endpoint_used = "contacts"
    THEN [CUSTOMER_NAME |-> WrittenCell(customer.companyName),
          CONTACT |-> WrittenCell(customer.displayName)]
  ELSE [CUSTOMER_NAME |-> WrittenCell(customer.displayName),
        CONTACT |-> WrittenCell(customer.contactName)]

\* the calls: the cache file is missing or holds an earlier export; the
\* token request succeeds or raises; the directory answers on one of its
\* two endpoints with up to MaxFetched records (none when the fetch
\* failed); writing the export succeeds or raises
InitCache ==
  /\ ReconIdle
  /\ PayIdle
  /\ fn_pc = "authenticate"
  /\ LET Fetched ==
           { [displayName |-> ACE, companyName |-> MX, contactName |-> <<>>],
             [displayName |-> BB, companyName |-> <<>>, contactName |-> ACEX] }
         CacheFiles ==
           { NoFile,
             CsvFile({"CUSTOMER_NAME", "CONTACT"}, DirectoryRows),
             CsvFile({"CUSTOMER_NAME", "CONTACT"},
                     << [CUSTOMER_NAME |-> XA, CONTACT |-> NaN] >>) }
     IN  \E cache_file \in CacheFiles, token \in BOOLEAN,
            api_endpoint_used \in {"contacts", "customers"},
            customers \in UNION { [1..n -> Fetched] : n \in 0..MaxFetched },
            writable \in BOOLEAN :
           fn_arg = [cache_file |-> cache_file, token |-> token,
                     api_endpoint_used |-> api_endpoint_used,
                     customers |-> customers, writable |-> writable]
  /\ fn_out = [cache_file |-> fn_arg.cache_file, backups |-> {},
               success |-> FALSE, result |-> None]

\* lines 24-37: the token is obtained, or an exception of the token
\* request is caught at line 59
Authenticate ==
  /\ fn_pc = "authenticate"
  /\ IF fn_arg.token
       THEN fn_pc' = "backup" /\ UNCHANGED fn_out
     ELSE fn_pc' = "returned" /\ fn_out' = [fn_out EXCEPT !.result = FALSE]
  /\ UNCHANGED fn_arg
  /\ UNCHANGED <<recon_vars, pay_vars>>

\* lines 40-43: an existing cache file is renamed to a backup name
BackupCache ==
  /\ fn_pc = "backup"
  /\ fn_out' = IF fn_out.cache_file.exists
                 THEN [fn_out EXCEPT !.backups = @ \cup {fn_out.cache_file},
                                     !.cache_file = NoFile]
               ELSE fn_out
  /\ fn_pc' = "export"
  /\ UNCHANGED fn_arg
  /\ UNCHANGED <<recon_vars, pay_vars>>

\* line 46 with export_customers_with_contact_to_csv: nothing is written
\* when no customer was fetched or when writing raises
ExportCustomers ==
  /\ fn_pc = "export"
  /\ IF fn_arg.customers = <<>> \/ ~fn_arg.writable
       THEN fn_out' = [fn_out EXCEPT !.success = FALSE]
     ELSE fn_out' =
            [fn_out EXCEPT
               !.success = TRUE,
               !.cache_file =
                 CsvFile({"CUSTOMER_NAME", "CONTACT"},
                         [k \in DOMAIN fn_arg.customers |->
                            CacheRow(fn_arg.customers[k],
                                     fn_arg.api_endpoint_used)])]
  /\ fn_pc' = "verify"
  /\ UNCHANGED fn_arg
  /\ UNCHANGED <<recon_vars, pay_vars>>

\* lines 48-57: the export is read back and the outcome returned
ReturnOutcome ==
  /\ fn_pc = "verify"
  /\ fn_out' = [fn_out EXCEPT !.result = fn_out.success]
  /\ fn_pc' = "returned"
  /\ UNCHANGED fn_arg
  /\ UNCHANGED <<recon_vars, pay_vars>>

NextCache ==
  \/ Authenticate
  \/ BackupCache
  \/ ExportCustomers
  \/ ReturnOutcome

SpecCache == InitCache /\ [][NextCache]_vars

\* C38: when a cache file existed before update_bc_customer_cache was
\* called, a cache file exists at the same path after the call has
\* returned, whether the refresh succeeded or failed.
C38_CacheFileSurvivesRefresh ==
  fn_pc = "returned" /\ fn_arg.cache_file.exists => fn_out.cache_file.exists

(***************************************************************************)
(* The download step: download_specific_file and identify_new_rows         *)
(***************************************************************************)

\* most rows of a snapshot of the spreadsheet
MaxSheetRows == 2
\* most edits of the remote spreadsheet, and most workflow runs
MaxEdits == 1
MaxDownloads == 2

\* the columns of the spreadsheets, in the order of the sheet
SheetColumns ==
  << "ID", "Posting date", "Customer", "Amount", "Branch", "Cheque",
     "Debit", "Credit" >>

ColumnsOf(columns) == SelectSeq(SheetColumns, LAMBDA c : c \in columns)

\* line 227
potential_key_columns ==
  << "ID", "Id", "id", "UUID", "Key", "TransactionId", "RecordID" >>

\* lines 233-235: the lower-cased column name holds one of the words time,
\* date, updated, created, timestamp
IsTimeColumn(col) == col = "Posting date"

\* lines 228-236: the identifier columns the sheet has, or else its
\* columns that are not time columns
key_columns(columns) ==
  LET ids == SelectSeq(potential_key_columns, LAMBDA c : c \in columns)
  IN  IF ids # <<>> THEN ids
      ELSE SelectSeq(ColumnsOf(columns), LAMBDA c : ~IsTimeColumn(c))

\* sep.join of the cells of the row in the given columns, as astype(str)
\* writes them
RECURSIVE JoinCells(_, _, _)
JoinCells(row, columns, sep) ==
  IF columns = <<>> THEN <<>>
  ELSE IF Len(columns) = 1 THEN StrOfCell(row[columns[1]])
  ELSE StrOfCell(row[columns[1]]) \o sep \o JoinCells(row, Tail(columns), sep)

MaxKeyColumns == 5

\* identify_new_rows: the rows returned and the cache file left behind.
\* The md5 digest of a row is taken as collision-free: rows have the same
\* digest exactly when their joined texts are the same.
identify_new_rows(new_df, columns, cached) ==
  IF ~cached.exists
    THEN [new_rows |-> new_df, cached |-> CsvFile(columns, to_csv(new_df))]
  ELSE
    LET cached_df == read_csv(cached.rows)
        keys == key_columns(columns)
        row_hash(row) == JoinCells(row, ColumnsOf(columns), <<>>)
        cached_hashes == { row_hash(cached_df[k]) : k \in DOMAIN cached_df }
        Key(row) == JoinCells(row, keys, <<"-">>)
        cached_df_keys == { Key(cached_df[k]) : k \in DOMAIN cached_df }
        new_rows_df ==
          IF Len(keys) > MaxKeyColumns
            THEN SelectSeq(new_df, LAMBDA row : row_hash(row) \notin cached_hashes)
          ELSE IF Len(keys) = 0 \/ cached_df = <<>> \/ new_df = <<>>
            THEN new_df
          ELSE SelectSeq(new_df, LAMBDA row : Key(row) \notin cached_df_keys)
    IN  [new_rows |-> new_rows_df, cached |-> CsvFile(columns, to_csv(new_df))]

\* the sheets of the model: one with an identifier column, one with a date
\* and two other columns, one with a date column only, one with a date
\* and six other columns
SheetShapes ==
  { {"ID", "Amount"},
    {"Posting date", "Customer", "Amount"},
    {"Posting date"},
    {"Posting date", "Customer", "Amount", "Branch", "Cheque", "Debit",
     "Credit"} }

March16 == <<"2", "0", "2", "5", "-", "0", "3", "-", "1", "6">>
March17 == <<"2", "0", "2", "5", "-", "0", "3", "-", "1", "7">>

\* the rows a sheet of the given columns can hold
SheetRows(columns) ==
  LET Sheet(id, date, customer, amount) ==
        [c \in columns |->
           CASE c = "ID" -> id
             [] c = "Posting date" -> date
             [] c = "Customer" -> customer
             [] c = "Amount" -> amount
             [] OTHER -> NaN]
  IN  { Sheet(<<"1">>, March16, ACE, <<"1", "0">>),
        Sheet(<<"2">>, March17, ACE, <<"1", "0">>),
        Sheet(<<"1">>, March16, MX, <<"2", "0">>) }

Snapshots(columns) ==
  UNION { [1..n -> SheetRows(columns)] : n \in 0..MaxSheetRows }

\* before the first run: nothing is cached
InitDownload ==
  /\ ReconIdle
  /\ PayIdle
  /\ fn_pc = "idle"
  /\ \E columns \in SheetShapes : fn_arg = [columns |-> columns]
  /\ \E sheet \in Snapshots(fn_arg.columns) :
       fn_out = [sheet |-> sheet, eTag |-> 0, edits |-> 0, runs |-> 0,
                 cached_info |-> None, cached |-> NoFile,
                 new_rows |-> <<>>, unprocessed |-> {}]

\* the spreadsheet is edited on the remote drive
EditSpreadsheet ==
  /\ fn_pc = "idle"
  /\ fn_out.edits < MaxEdits
  /\ \E sheet \in Snapshots(fn_arg.columns) :
       /\ sheet # fn_out.sheet
       /\ fn_out' = [fn_out EXCEPT !.sheet = sheet, !.eTag = @ + 1,
                                   !.edits = @ + 1]
  /\ UNCHANGED <<fn_pc, fn_arg>>
  /\ UNCHANGED <<recon_vars, pay_vars>>

\* download_specific_file: nothing is returned for an unchanged eTag;
\* otherwise the sheet is compared with the cache, the cache and the
\* cached eTag are replaced, and the new rows are returned
DownloadSpecificFile ==
  /\ fn_pc = "idle"
  /\ fn_out.runs < MaxDownloads
  /\ IF fn_out.cached_info = [etag |-> fn_out.eTag]
       THEN fn_out' = [fn_out EXCEPT !.new_rows = <<>>, !.runs = @ + 1]
     ELSE LET r == identify_new_rows(fn_out.sheet, fn_arg.columns,
                                     fn_out.cached)
          IN  fn_out' = [fn_out EXCEPT !.new_rows = r.new_rows,
                                       !.cached = r.cached,
                                       !.cached_info = [etag |-> fn_out.eTag],
                                       !.runs = @ + 1]
  /\ fn_pc' = "downloaded"
  /\ UNCHANGED fn_arg
  /\ UNCHANGED <<recon_vars, pay_vars>>

Rows(df) == { df[k] : k \in DOMAIN df }

\* the steps after the download all succeed: the rows the download
\* reported have been parsed and paid
LaterStepsSucceed ==
  /\ fn_pc = "downloaded"
  /\ fn_out' = [fn_out EXCEPT !.unprocessed = @ \ Rows(fn_out.new_rows)]
  /\ fn_pc' = "idle"
  /\ UNCHANGED fn_arg
  /\ UNCHANGED <<recon_vars, pay_vars>>

\* execute_workflow lines 385-390: a step after the download fails and the
\* workflow stops; the rows the download reported stay unprocessed
LaterStepFails ==
  /\ fn_pc = "downloaded"
  /\ fn_out.new_rows # <<>>
  /\ fn_out' = [fn_out EXCEPT !.unprocessed = @ \cup Rows(fn_out.new_rows)]
  /\ fn_pc' = "idle"
  /\ UNCHANGED fn_arg
  /\ UNCHANGED <<recon_vars, pay_vars>>

NextDownload ==
  \/ EditSpreadsheet
  \/ DownloadSpecificFile
  \/ LaterStepsSucceed
  \/ LaterStepFails

SpecDownload == InitDownload /\ [][NextDownload]_vars

\* C39: when identify_new_rows has compared a snapshot with the cache, the
\* rows it returned are the rows of the snapshot that do not occur in the
\* cached snapshot, in their order, the cached snapshot equals the new
\* snapshot afterwards, and a repeated call with the same snapshot returns
\* no rows.
C39_NewRowsAreRowsNotCached ==
  [][ fn_pc = "idle" /\ fn_pc' = "downloaded"
        /\ fn_out.cached_info # [etag |-> fn_out.eTag]
      => LET cached_rows == Rows(read_csv(fn_out.cached.rows))
         IN  /\ fn_out'.new_rows =
                  SelectSeq(fn_out.sheet, LAMBDA row : row \notin cached_rows)
             /\ read_csv(fn_out'.cached.rows) = fn_out.sheet
             /\ identify_new_rows(fn_out.sheet, fn_arg.columns,
                                  fn_out'.cached).new_rows = <<>> ]_vars

\* C36: a row that a download reported as new and that was not processed
\* because a later step failed is reported as new by the download of the
\* next workflow run, as long as the spreadsheet still holds it.
C36_UnprocessedRowsReportedAgain ==
  [][ fn_pc = "idle" /\ fn_pc' = "downloaded"
      => \A row \in fn_out.unprocessed :
           row \in Rows(fn_out.sheet) => row \in Rows(fn_out'.new_rows) ]_vars

====
